---- MODULE Spec2Model ----
(***************************************************************************)
(* Query analysis and knowledge retrieval of the hardware-ai-orchestrator. *)
(*                                                                         *)
(* Numbers.  Every score of the program is a Python float that is a small  *)
(* decimal.  The model keeps them as integers:                             *)
(*   - factor scores, similarity scores, confidences: hundredths (0.8=80); *)
(*   - weights: thousandths (0.275 = 275);                                 *)
(*   - final_score, length_bonus and the router's input: units of 1e-5     *)
(*     (hundredths times thousandths), so 1.0 = 100000.                    *)
(*                                                                         *)
(* Queries.  Every keyword pattern of the program is                       *)
(* \b(kw1|kw2|...)\b with re.IGNORECASE and is used through findall, and   *)
(* word_count is len(query.split()).  Both only depend on how often each   *)
(* token occurs, so a query is a multiset of lower-case tokens: a function *)
(* from Vocabulary to the number of occurrences.                           *)
(***************************************************************************)
EXTENDS Integers, Sequences, FiniteSets, TLC

VARIABLES
    query,        \* the query text of the current call (multiset of tokens)
    domain,       \* the domain argument of calculate_complexity
    factors,      \* HardwareComplexityScorer.factors: factor -> weight
    complexity,   \* the dict returned by calculate_complexity, or NoResult
    intent_categories, \* HardwareIntentClassifier.intent_categories
    primary,      \* the tuple returned by get_primary_intent, or NoResult
    classification,  \* the dict returned by classify_intent, or NoResult
    score,        \* the complexity score handed to the model router
    routing,      \* the routing decision for score, or NoResult
    earlier,      \* an earlier request's score and decision, or NoResult
    analysis,     \* what the latest analyze_query(query) returned, or NoResult
    previous,     \* what the analyze_query(query) before it returned
    calls,        \* number of analyze_query calls on the analyzer so far
    component_db, \* ComponentDatabase: the component records, in its order
    vector_search_available,  \* HardwareRetrievalEngine's flag
    vector_results,  \* what the vector store answers to the context's query
    context,      \* the RetrievalContext of the retrieve_knowledge call
    failing,      \* the strategy whose data source raises, or NONE
    knowledge,    \* outcome of retrieve_knowledge, or NoResult
    vector_store_init,  \* how HardwareVectorStore() ends when it is called
    engine,       \* HardwareRetrievalEngine(): "none", "constructed", "raised"
    model_name,   \* the model_name argument of call_ai_model
    model_fails,  \* whether the call to a supported model raises
    response,     \* what call_ai_model returned, or NoResult
    error_log,    \* the messages of logger.error, oldest first
    client_calls, \* number of call_ai_model calls so far
    weight_table, \* the weights of COMPLEXITY_FACTORS as imported
    scorer,       \* HardwareComplexityScorer(): "none" or "constructed"
    patterns,     \* HardwareComplexityScorer.patterns, or NoResult
    debug,        \* settings.debug
    escalates,    \* whether the router escalates scores at a boundary
    started,      \* whether startup_event has run
    vector_warnings,  \* number of "Vector store not available" warnings logged
    request,      \* the HTTP request being served, or NoResult
    fault,        \* the step of the handler that raised, or NONE
    http_response,    \* the response to request, or NoResult
    earlier_exchange, \* an earlier /analyze request and its response
    served,       \* number of requests served so far
    query_analyzer,   \* the module global of endpoints.py
    constructed,  \* number of HardwareQueryAnalyzer() constructions so far
    pc,           \* where each caller of get_query_analyzer stands
    instance,     \* the analyzer each caller has constructed, if any
    got,          \* what get_query_analyzer returned to each caller
    constraint_query,  \* the query handed to _extract_constraints_from_query
    extracted,    \* what _extract_constraints_from_query returned, or NoResult
    smaller,      \* a second query, to be compared with query
    smaller_complexity  \* what calculate_complexity(smaller) returned

scorerVars == <<query, domain, factors, complexity>>

classifierVars == <<intent_categories, primary, classification>>

routerVars == <<score, routing, earlier>>

analyzerVars == <<analysis, previous, calls>>

retrievalVars ==
    <<component_db, vector_search_available, vector_results, context,
      failing, knowledge, vector_store_init, engine>>

clientVars ==
    <<model_name, model_fails, response, error_log, client_calls>>

loadVars == <<weight_table, scorer, patterns>>

apiVars ==
    <<debug, escalates, started, vector_warnings, request, fault,
      http_response, earlier_exchange, served>>

singletonVars == <<query_analyzer, constructed, pc, instance, got>>

constraintVars == <<constraint_query, extracted>>

compareVars == <<smaller, smaller_complexity>>

vars ==
    <<scorerVars, classifierVars, routerVars, analyzerVars, retrievalVars,
      clientVars, loadVars, apiVars, singletonVars, constraintVars,
      compareVars>>

\* Python's None, as an argument
NONE == "None"

\* no value returned (yet)
NoResult == [returned |-> FALSE]

(***************************************************************************)
(* Bounds                                                                  *)
(***************************************************************************)
\* most occurrences of one token in a query
MaxRep == 3

\* most analyze_query calls on one analyzer
MaxCalls == 3

\* most records in the component database
MaxComponents == 12

Min(a, b) == IF a <= b THEN a ELSE b

Max(a, b) == IF a >= b THEN a ELSE b

(***************************************************************************)
(* config/complexity_weights.py                                            *)
(***************************************************************************)
FactorNames ==
    <<"technical_keywords_density", "design_constraint_count",
      "domain_specificity", "calculation_complexity",
      "standards_involvement", "multi_domain_integration">>

\* the weights the comments of calculate_complexity still quote for the first
\* factor (25%), with the other five as configured
COMPLEXITY_FACTORS_stale ==
    [technical_keywords_density |-> 250,
     design_constraint_count    |-> 150,
     domain_specificity         |-> 225,
     calculation_complexity     |-> 150,
     standards_involvement      |-> 150,
     multi_domain_integration   |-> 50]

\* COMPLEXITY_FACTORS[f]["weight"], in thousandths
COMPLEXITY_FACTORS ==
    [technical_keywords_density |-> 275,
     design_constraint_count    |-> 150,
     domain_specificity         |-> 225,
     calculation_complexity     |-> 150,
     standards_involvement      |-> 150,
     multi_domain_integration   |-> 50]

\* the adjacent literals "integrated" "FPGA" of the source are one string
high_complexity_keywords ==
    {"optimization", "analysis", "simulation", "modeling", "calculation",
     "algorithm", "mathematical", "statistical", "monte carlo", "worst-case",
     "corner analysis", "sensitivity", "tolerance", "derating",
     "thermal analysis", "emi", "emc", "signal integrity", "impedance",
     "transmission line", "high-frequency", "rf", "microcontroller",
     "cortex-m4", "ultra-low power", "power management", "connectivity",
     "embedded", "integratedfpga", "xilinx", "altera", "intel", "vhdl",
     "verilog", "systemverilog", "synthesis", "place and route",
     "timing closure", "resource utilization", "processor core", "32-bit",
     "64-bit", "risc", "pipeline", "cache", "three-phase",
     "motor controller", "plc interface", "industrial communication",
     "modbus", "profibus", "ethercat", "devicenet", "industrial ethernet",
     "fault-tolerant", "dual-redundant", "cispr 25", "powertrain", "ecu",
     "iec 60601", "patient isolation", "4kv test voltage",
     "medical equipment", "biocompatibility", "sterilization",
     "defibrillation", "patient applied part"}

constraint_keywords ==
    {"requirement", "constraint", "limit", "specification", "tolerance",
     "range", "minimum", "maximum", "typical", "must", "shall", "criteria"}

high_specificity_domains ==
    {"automotive", "medical", "analog_rf", "power_electronics"}

calculation_keywords ==
    {"calculate", "formula", "equation", "derive", "compute", "mathematical",
     "integration", "differentiation", "transfer function",
     "frequency response", "gain", "phase", "stability", "margin",
     "bandwidth", "efficiency", "evaluate", "analysis"}

standards_keywords ==
    {"aec-q100", "iso 26262", "iec 60601", "asil", "sil",
     "functional safety", "compliance", "certification", "qualification",
     "standard", "regulation", "emc", "emi", "safety", "medical grade",
     "automotive grade"}

integration_keywords ==
    {"system", "integration", "interface", "communication", "protocol",
     "co-design", "hardware-software", "multi-domain", "cross-functional",
     "interdisciplinary"}

\* the keyword lists of COMPLEXITY_FACTORS in the order they are written,
\* lower-cased, under the name of the pattern compiled from each
KeywordLists ==
    [technical |->
        <<"optimization", "analysis", "simulation", "modeling",
          "calculation", "algorithm", "mathematical", "statistical",
          "monte carlo", "worst-case", "corner analysis", "sensitivity",
          "tolerance", "derating", "thermal analysis", "emi", "emc",
          "signal integrity", "impedance", "transmission line",
          "high-frequency", "rf", "microcontroller", "cortex-m4",
          "ultra-low power", "power management", "connectivity", "embedded",
          "optimization", "integratedfpga", "xilinx", "altera", "intel",
          "vhdl", "verilog", "systemverilog", "synthesis",
          "place and route", "timing closure", "resource utilization",
          "processor core", "32-bit", "64-bit", "risc", "pipeline", "cache",
          "three-phase", "motor controller", "plc interface",
          "industrial communication", "modbus", "profibus", "ethercat",
          "devicenet", "industrial ethernet", "fault-tolerant",
          "dual-redundant", "cispr 25", "powertrain", "ecu", "iec 60601",
          "patient isolation", "4kv test voltage", "medical equipment",
          "biocompatibility", "sterilization", "defibrillation",
          "patient applied part">>,
     constraints |->
        <<"requirement", "constraint", "limit", "specification",
          "tolerance", "range", "minimum", "maximum", "typical", "must",
          "shall", "requirement", "criteria">>,
     calculations |->
        <<"calculate", "formula", "equation", "derive", "compute",
          "mathematical", "integration", "differentiation",
          "transfer function", "frequency response", "gain", "phase",
          "stability", "margin", "bandwidth", "efficiency", "evaluate",
          "analysis">>,
     standards |->
        <<"aec-q100", "iso 26262", "iec 60601", "asil", "sil",
          "functional safety", "compliance", "certification",
          "qualification", "standard", "regulation", "emc", "emi", "safety",
          "medical grade", "automotive grade">>,
     integration |->
        <<"system", "integration", "interface", "communication", "protocol",
          "co-design", "hardware-software", "multi-domain",
          "cross-functional", "interdisciplinary">>]

\* the table with the thresholds of grok_2 and gpt_4o exchanged
COMPLEXITY_THRESHOLDS_swapped ==
    [claude_sonnet_4 |-> 80000, grok_2 |-> 40000,
     gpt_4o |-> 60000, gpt_4o_mini |-> 0]

\* the table with grok_2 starting where the 0.4 - 0.7 band ends
COMPLEXITY_THRESHOLDS_bands ==
    [claude_sonnet_4 |-> 80000, grok_2 |-> 70000,
     gpt_4o |-> 40000, gpt_4o_mini |-> 0]

\* the router's threshold table, in units of 1e-5
COMPLEXITY_THRESHOLDS ==
    [claude_sonnet_4 |-> 80000, grok_2 |-> 60000,
     gpt_4o |-> 40000, gpt_4o_mini |-> 0]

(***************************************************************************)
(* Queries                                                                 *)
(***************************************************************************)
\* tokens a modelled query is made of; "hello" is in no keyword list
ScorerTokens ==
    {"hello", "analysis", "tolerance", "emi", "integration", "limit"}

\* tokens of the modelled intent table; "hello" is in none of its lists
IntentTokens ==
    {"hello", "select", "recommend", "explain", "compliance", "trade-off"}

\* tokens of the queries given to analyze_query
AnalyzeTokens == {"hello", "analysis", "select", "automotive"}

\* tokens the retrieval strategies look for in the query
RetrievalTokens == {"microcontroller", "buck", "sensor", "aec-q100", "medical"}

\* the tokens of the automotive buck converter query of the integration
\* test, lower-cased; "thermal analysis" is kept as the phrase it is matched as
ScenarioTokens ==
    {"design", "automotive", "buck", "converter", "with", "thermal analysis",
     "emi", "optimization", "efficiency", "calculation", "aec-q100",
     "qualified"}

Vocabulary ==
    ScorerTokens \cup IntentTokens \cup AnalyzeTokens \cup RetrievalTokens
    \cup ScenarioTokens

EmptyQuery == [w \in Vocabulary |-> 0]

\* the queries over the tokens of T with at most MaxRep occurrences of each
QueriesOver(T) ==
    {[w \in Vocabulary |-> IF w \in T THEN f[w] ELSE 0] :
        f \in [T -> 0..MaxRep]}

\* "Design automotive buck converter with thermal analysis, EMI optimization,
\* efficiency calculation, AEC-Q100 qualified"
AutomotiveBuckQuery ==
    [w \in Vocabulary |-> IF w \in ScenarioTokens THEN 1 ELSE 0]

\* the queries in which every token of T occurs once or not at all
QueriesWith(T) ==
    {[w \in Vocabulary |-> IF w \in S THEN 1 ELSE 0] : S \in SUBSET T}

\* pairs <<a, b>> of different modelled strings with a a substring of b
Substrings ==
    {<<"v", "automotive">>, <<"automotive", "automotive_qualified">>,
     <<"medical", "medical_qualified">>,
     <<"v", "converter">>, <<"analysis", "thermal analysis">>,
     <<"thermal", "thermal analysis">>, <<"v", "voltage">>,
     <<"volt", "voltage">>}

IsSubstring(a, b) == a = b \/ <<a, b>> \in Substrings

\* `keyword in query_lower`
InQuery(keyword, q) ==
    \E w \in Vocabulary : q[w] > 0 /\ IsSubstring(keyword, w)

\* the whitespace-separated words of a token
WordsOf(w) ==
    IF w = "thermal analysis" THEN <<"thermal", "analysis">> ELSE <<w>>

\* matches of \b(k1|k2|...)\b in one occurrence of token w: the token as a
\* whole when it is a keyword, else each of its words that is one
MatchesIn(keywords, w) ==
    IF w \in keywords THEN 1
    ELSE Cardinality({i \in 1..Len(WordsOf(w)) : WordsOf(w)[i] \in keywords})

\* the matches of the keyword pattern in the occurrences of the tokens of S
RECURSIVE findall_in(_, _, _)
findall_in(keywords, q, S) ==
    IF S = {} THEN 0
    ELSE LET w == CHOOSE x \in S : TRUE
         IN  q[w] * MatchesIn(keywords, w) + findall_in(keywords, q, S \ {w})

\* len(pattern.findall(query)) for the pattern compiled from keywords
findall(keywords, q) == findall_in(keywords, q, Vocabulary)

\* the words in the occurrences of the tokens of S
RECURSIVE split_in(_, _)
split_in(q, S) ==
    IF S = {} THEN 0
    ELSE LET w == CHOOSE x \in S : TRUE
         IN  q[w] * Len(WordsOf(w)) + split_in(q, S \ {w})

\* len(query.split())
split(q) == split_in(q, Vocabulary)

(***************************************************************************)
(* classification/complexity_scorer.py                                     *)
(***************************************************************************)
\* _compile_patterns: each pattern is the alternation of the keywords of its
\* list, in the order and as often as the list holds them
_compile_patterns(keywords) ==
    [p \in DOMAIN keywords |-> keywords[p]]

\* HardwareComplexityScorer.__init__ on the imported table
HardwareComplexityScorer_init(weights, keywords) ==
    [scorer |-> "constructed",
     factors |-> weights,
     patterns |-> _compile_patterns(keywords)]

\* the branch without a floor for a missing domain
DomainScore_nofloor(d) ==
    IF d \in high_specificity_domains THEN 80
    ELSE IF d # NONE /\ d # "" THEN 50
    ELSE 0

\* the domain-specificity branch; None and "" are both falsy
DomainScore(d) ==
    IF d \in high_specificity_domains THEN 80
    ELSE IF d # NONE /\ d # "" THEN 50
    ELSE 30

\* the factor scores with 0.3 per standards match, as for calculations
FactorScores_standards_step(q, d) ==
    [technical_keywords_density |->
         Min(findall(high_complexity_keywords, q) * 20, 100),
     design_constraint_count |->
         Min(findall(constraint_keywords, q) * 25, 100),
     domain_specificity |-> DomainScore(d),
     calculation_complexity |->
         Min(findall(calculation_keywords, q) * 30, 100),
     standards_involvement |->
         Min(findall(standards_keywords, q) * 30, 100),
     multi_domain_integration |->
         Min(findall(integration_keywords, q) * 50, 100)]

\* the factor scores without min(..., 1.0)
FactorScores_uncapped(q, d) ==
    [technical_keywords_density |->
         findall(high_complexity_keywords, q) * 20,
     design_constraint_count |-> findall(constraint_keywords, q) * 25,
     domain_specificity |-> DomainScore(d),
     calculation_complexity |-> findall(calculation_keywords, q) * 30,
     standards_involvement |-> findall(standards_keywords, q) * 40,
     multi_domain_integration |-> findall(integration_keywords, q) * 50]

FactorScores(q, d) ==
    [technical_keywords_density |->
         Min(findall(high_complexity_keywords, q) * 20, 100),
     design_constraint_count |->
         Min(findall(constraint_keywords, q) * 25, 100),
     domain_specificity |-> DomainScore(d),
     calculation_complexity |->
         Min(findall(calculation_keywords, q) * 30, 100),
     standards_involvement |->
         Min(findall(standards_keywords, q) * 40, 100),
     multi_domain_integration |->
         Min(findall(integration_keywords, q) * 50, 100)]

RECURSIVE WeightedSum(_, _, _)
WeightedSum(scores, weights, i) ==
    IF i > Len(FactorNames) THEN 0
    ELSE scores[FactorNames[i]] * weights[FactorNames[i]]
         + WeightedSum(scores, weights, i + 1)

\* the length bonus with max in place of min
LengthBonus_max(word_count) == Max(word_count * 2000, 10000)

\* min(word_count / 50, 0.1)
LengthBonus(word_count) == Min(word_count * 2000, 10000)

\* the clamp without its upper limit
Clamp_lower_only(x) == Max(0, x)

\* max(0.0, min(final_score, 1.0))
Clamp(x) == Max(0, Min(x, 100000))

calculate_complexity(q, d, weights) ==
    LET factor_scores == FactorScores(q, d)
        word_count    == split(q)
        length_bonus  == LengthBonus(word_count)
    IN  [factor_scores |-> factor_scores,
         final_score   |-> Clamp(WeightedSum(factor_scores, weights, 1)
                                 + length_bonus),
         word_count    |-> word_count,
         length_bonus  |-> length_bonus]

\* a call that builds its factor_scores in the weight table itself
factors_after_call_aliased(weights, factor_scores) ==
    [f \in DOMAIN weights |-> factor_scores[f]]

\* self.factors after a call: calculate_complexity only reads it
factors_after_call(weights, factor_scores) == weights

(***************************************************************************)
(* config/intent_categories.py: the table of the 12 intent categories.     *)
(* An entry has keywords, complexity_indicators and base_complexity        *)
(* (hundredths).  Categories whose lists are not listed here have keywords *)
(* outside the modelled vocabulary.                                        *)
(***************************************************************************)
\* the categories in the iteration order of the table
IntentOrder ==
    <<"component_selection", "circuit_analysis", "thermal_analysis",
      "signal_integrity", "compliance_checking", "design_validation",
      "cost_optimization", "lifecycle_management", "troubleshooting",
      "educational_content", "testing_validation",
      "performance_optimization">>

IntentNames == {IntentOrder[i] : i \in 1..Len(IntentOrder)}

INTENT_CATEGORIES ==
    [i \in IntentNames |->
        CASE i = "component_selection" ->
                 [keywords |-> {"select", "recommend"},
                  complexity_indicators |-> {"trade-off"},
                  base_complexity |-> 60]
          [] i = "compliance_checking" ->
                 [keywords |-> {"compliance"},
                  complexity_indicators |-> {"compliance"},
                  base_complexity |-> 80]
          [] i = "educational_content" ->
                 [keywords |-> {"explain"},
                  complexity_indicators |-> {},
                  base_complexity |-> 30]
          [] OTHER ->
                 [keywords |-> {i},
                  complexity_indicators |-> {},
                  base_complexity |-> 70]]

(***************************************************************************)
(* classification/intent_classifier.py                                     *)
(* Confidences are in units of 1e-4 (hundredths times hundredths).         *)
(***************************************************************************)
\* the score of one category with the indicator boosts added before the cap
IntentScore_capped_late(config, q) ==
    LET keyword_count == findall(config.keywords, q)
        base_score ==
            Min(keyword_count * 20
                    + 10 * Cardinality({ind \in config.complexity_indicators :
                                          InQuery(ind, q)}),
                100)
    IN  Min(base_score * config.base_complexity, 10000)

\* the score of one category
IntentScore(config, q) ==
    LET keyword_count == findall(config.keywords, q)
        base_score ==
            Min(keyword_count * 20, 100)
            + 10 * Cardinality({ind \in config.complexity_indicators :
                                  InQuery(ind, q)})
    IN  Min(base_score * config.base_complexity, 10000)

classify_intent(q, categories) ==
    [i \in DOMAIN categories |-> IntentScore(categories[i], q)]

\* max(intent_scores.items(), key=lambda x: x[1]): the first item, in
\* iteration order, whose score no item exceeds
RECURSIVE FirstMax(_, _, _, _)
FirstMax(scores, order, i, best) ==
    IF i > Len(order) THEN best
    ELSE IF scores[order[i]] > scores[order[best]]
         THEN FirstMax(scores, order, i + 1, i)
         ELSE FirstMax(scores, order, i + 1, best)

\* get_primary_intent going through the categories in reverse order
get_primary_intent_reversed(q, categories, order) ==
    LET intent_scores == classify_intent(q, categories)
        reversed == [i \in 1..Len(order) |-> order[Len(order) + 1 - i]]
    IN  IF DOMAIN intent_scores = {}
        THEN [intent |-> "educational_content", confidence |-> 3000]
        ELSE LET k == FirstMax(intent_scores, reversed, 1, 1)
             IN  [intent |-> reversed[k],
                  confidence |-> intent_scores[reversed[k]]]

get_primary_intent(q, categories, order) ==
    LET intent_scores == classify_intent(q, categories)
    IN  IF DOMAIN intent_scores = {}
        THEN [intent |-> "educational_content", confidence |-> 3000]
        ELSE LET k == FirstMax(intent_scores, order, 1, 1)
             IN  [intent |-> order[k],
                  confidence |-> intent_scores[order[k]]]

(***************************************************************************)
(* The model router: route(complexity_score, intent, domain).              *)
(* Thresholds are evaluated highest first; a score within the boundary     *)
(* margin below the threshold of the next more capable model may be        *)
(* escalated to that model.                                                *)
(***************************************************************************)
\* the four models, least capable first
ModelTiers == <<"gpt_4o_mini", "gpt_4o", "grok_2", "claude_sonnet_4">>

Models == {ModelTiers[i] : i \in 1..Len(ModelTiers)}

Tier(m) == CHOOSE i \in 1..Len(ModelTiers) : ModelTiers[i] = m

\* boundary scores are those within 0.05 of a threshold
BoundaryMargin == 5000

\* check the greatest threshold first, then the next one, else lightweight
RECURSIVE HighestFirst(_, _, _)
HighestFirst(thresholds, remaining, s) ==
    IF remaining = {} THEN "gpt_4o_mini"
    ELSE LET m == CHOOSE x \in remaining :
                      \A y \in remaining : thresholds[y] <= thresholds[x]
         IN  IF s >= thresholds[m] THEN m
             ELSE HighestFirst(thresholds, remaining \ {m}, s)

\* the score sits just below the threshold of the next more capable model
AtBoundary(thresholds, m, s) ==
    /\ Tier(m) < Len(ModelTiers)
    /\ s < thresholds[ModelTiers[Tier(m) + 1]]
    /\ thresholds[ModelTiers[Tier(m) + 1]] - s <= BoundaryMargin

route(s, escalate, thresholds) ==
    LET base == HighestFirst(thresholds, DOMAIN thresholds, s)
    IN  IF escalate /\ AtBoundary(thresholds, base, s)
        THEN [selected_model |-> ModelTiers[Tier(base) + 1],
              escalated |-> TRUE]
        ELSE [selected_model |-> base, escalated |-> FALSE]

(***************************************************************************)
(* Domain detection and the orchestrator, HardwareQueryAnalyzer.           *)
(* The domain detector scores the query against the keyword set of every   *)
(* domain, as the intent classifier does; "general" is the default.        *)
(***************************************************************************)
DomainOrder ==
    <<"automotive", "medical", "power_electronics", "analog_rf",
      "digital_design", "embedded_hardware", "industrial_control",
      "consumer">>

\* the keywords of a domain (those in the modelled vocabulary, else its name)
DomainKeywords(d) ==
    IF d = "automotive" THEN {"automotive", "aec-q100"} ELSE {d}

detect_primary_domain(q) ==
    LET scores == [d \in {DomainOrder[i] : i \in 1..Len(DomainOrder)} |->
                      findall(DomainKeywords(d), q)]
        k == FirstMax(scores, DomainOrder, 1, 1)
    IN  IF scores[DomainOrder[k]] = 0 THEN "general" ELSE DomainOrder[k]

\* analyze_query without the routing decision: classification, domain
\* detection, then complexity scoring with the detected domain as hint
analyze_query(q, categories, weights) ==
    LET primary_domain == detect_primary_domain(q)
    IN  [intent_scores  |-> classify_intent(q, categories),
         primary_intent |-> get_primary_intent(q, categories, IntentOrder),
         primary_domain |-> primary_domain,
         complexity     |-> calculate_complexity(q, primary_domain, weights)]

(***************************************************************************)
(* The knowledge sources read by the retrieval engine: ComponentDatabase,  *)
(* HardwareVectorStore and StandardsDatabase.  They are read-only          *)
(* collections; a component record has component_id, category and          *)
(* compliance tags.                                                        *)
(***************************************************************************)
Categories ==
    <<"microcontroller", "power_management", "sensors", "analog_ic">>

\* a database of n components, categories assigned round-robin over the
\* first c categories, every p-th component AEC-Q100 qualified and every
\* (p+1)-th one IEC 60601 qualified
ComponentDb(n, c, p) ==
    [i \in 1..n |->
        [component_id |-> i,
         category |-> Categories[((i - 1) % c) + 1],
         compliance |->
             (IF i % p = 0 THEN {"AEC-Q100"} ELSE {})
             \cup (IF i % (p + 1) = 0 THEN {"IEC 60601"} ELSE {})]]

search_by_category(db, category) ==
    SelectSeq(db, LAMBDA comp : comp.category = category)

\* the components that carry every standard of the filter
filter_components(db, compliance) ==
    SelectSeq(db, LAMBDA comp : compliance \subseteq comp.compliance)

\* get_component(id) finds a record
has_component(db, id) == \E i \in 1..Len(db) : db[i].component_id = id

get_component(db, id) ==
    db[CHOOSE i \in 1..Len(db) : db[i].component_id = id]

\* the answer of the vector store: k results starting after component `off`,
\* best first
VectorResults(k, off) ==
    [i \in 1..k |->
        [component_id |-> off + i, similarity_score |-> 95 - 5 * (i - 1)]]

\* the standards collection: identifier, the keyword that names it in a
\* query, its domains and its requirements
StandardsDb ==
    <<[standard_id |-> "AEC-Q100", keyword |-> "aec-q100",
       domains |-> {"automotive"}, requirements |-> <<"AEC-Q100-REQ-1">>],
      [standard_id |-> "ISO 26262", keyword |-> "iso 26262",
       domains |-> {"automotive"}, requirements |-> <<"ISO-26262-REQ-1">>],
      [standard_id |-> "IEC 60601", keyword |-> "iec 60601",
       domains |-> {"medical"}, requirements |-> <<"IEC-60601-REQ-1">>]>>

get_standards_by_domain(d) ==
    SelectSeq(StandardsDb, LAMBDA std : d \in std.domains)

RECURSIVE search_requirements_from(_, _)
search_requirements_from(q, i) ==
    IF i > Len(StandardsDb) THEN <<>>
    ELSE (IF InQuery(StandardsDb[i].keyword, q)
          THEN StandardsDb[i].requirements ELSE <<>>)
         \o search_requirements_from(q, i + 1)

\* the requirements whose text matches the query
search_requirements(q) == search_requirements_from(q, 1)

(***************************************************************************)
(* knowledge/retrieval_engine.py                                           *)
(***************************************************************************)
\* seq[:n]
Take(seq, n) == SubSeq(seq, 1, Min(n, Len(seq)))

\* the outcome of a call that raised
Raised == [raised |-> TRUE]

category_keywords ==
    [microcontroller  |-> {"microcontroller", "mcu", "processor", "cortex",
                           "arm"},
     power_management |-> {"power", "voltage", "regulator", "buck", "boost",
                           "ldo"},
     sensors          |-> {"sensor", "temperature", "pressure",
                           "accelerometer"},
     analog_ic        |-> {"op-amp", "amplifier", "comparator", "reference"}]

_get_relevant_categories_for_query(q) ==
    LET categories ==
            SelectSeq(Categories,
                      LAMBDA c : \E kw \in category_keywords[c] :
                                     InQuery(kw, q))
    IN  IF categories = <<>> THEN <<"microcontroller">> ELSE categories

_extract_compliance_requirements(q) ==
    (IF InQuery("aec-q100", q) \/ InQuery("automotive", q)
     THEN {"AEC-Q100"} ELSE {})
    \cup (IF InQuery("iso 26262", q) \/ InQuery("functional safety", q)
          THEN {"ISO 26262"} ELSE {})
    \cup (IF InQuery("iec 60601", q) \/ InQuery("medical", q)
          THEN {"IEC 60601"} ELSE {})

\* one entry of a strategy's result list
Entry(comp, similarity_score, retrieval_method, relevance_factors) ==
    [component |-> comp,
     similarity_score |-> similarity_score,
     retrieval_method |-> retrieval_method,
     relevance_factors |-> relevance_factors]

Entries(comps, similarity_score, retrieval_method, relevance_factors) ==
    [i \in 1..Len(comps) |->
        Entry(comps[i], similarity_score, retrieval_method,
              relevance_factors)]

RECURSIVE _semantic_from(_, _, _)
_semantic_from(db, results, i) ==
    IF i > Len(results) THEN <<>>
    ELSE (IF has_component(db, results[i].component_id)
          THEN <<Entry(get_component(db, results[i].component_id),
                       results[i].similarity_score, "semantic_search",
                       <<"semantic_similarity", "domain_match">>)>>
          ELSE <<>>)
         \o _semantic_from(db, results, i + 1)

_semantic_component_search(db, results) == _semantic_from(db, results, 1)

RECURSIVE _top_per_category(_, _, _)
_top_per_category(db, categories, i) ==
    IF i > Len(categories) THEN <<>>
    ELSE Entries(Take(search_by_category(db, categories[i]), 3), 70,
                 "intent_based", <<"category_match", "intent_alignment">>)
         \o _top_per_category(db, categories, i + 1)

_intent_based_component_retrieval(ctx, db) ==
    IF ctx.primary_intent = "component_selection"
    THEN _top_per_category(db,
                           _get_relevant_categories_for_query(ctx.query), 1)
    ELSE IF ctx.primary_intent = "compliance_checking"
              /\ _extract_compliance_requirements(ctx.query) # {}
    THEN Entries(Take(filter_components(
                          db, _extract_compliance_requirements(ctx.query)),
                      5),
                 80, "compliance_based",
                 <<"compliance_match", "standards_alignment">>)
    ELSE <<>>

_domain_specific_component_retrieval(ctx, db) ==
    IF ctx.primary_domain = "automotive"
    THEN Entries(Take(filter_components(db, {"AEC-Q100"}), 4), 75,
                 "domain_specific",
                 <<"automotive_qualified", "domain_expertise">>)
    ELSE IF ctx.primary_domain = "medical"
    THEN Entries(Take(filter_components(db, {"IEC 60601"}), 4), 75,
                 "domain_specific",
                 <<"medical_qualified", "safety_compliance">>)
    ELSE <<>>

\* a deduplication that forgets to record the identifiers it has seen
RECURSIVE _deduplicate_no_seen(_, _, _)
_deduplicate_no_seen(components, i, seen_ids) ==
    IF i > Len(components) THEN <<>>
    ELSE LET comp_id == components[i].component.component_id
         IN  IF comp_id \notin seen_ids
             THEN <<components[i]>>
                  \o _deduplicate_no_seen(components, i + 1, seen_ids)
             ELSE _deduplicate_no_seen(components, i + 1, seen_ids)

RECURSIVE _deduplicate_from(_, _, _)
_deduplicate_from(components, i, seen_ids) ==
    IF i > Len(components) THEN <<>>
    ELSE LET comp_id == components[i].component.component_id
         IN  IF comp_id \notin seen_ids
             THEN <<components[i]>>
                  \o _deduplicate_from(components, i + 1,
                                       seen_ids \cup {comp_id})
             ELSE _deduplicate_from(components, i + 1, seen_ids)

_deduplicate_components(components) == _deduplicate_from(components, 1, {})

method_boost(retrieval_method) ==
    CASE retrieval_method = "semantic_search"  -> 10
      [] retrieval_method = "compliance_based" -> 8
      [] retrieval_method = "domain_specific"  -> 6
      [] retrieval_method = "intent_based"     -> 4
      [] OTHER -> 0

ranking_key(comp_data, ctx) ==
    comp_data.similarity_score
    + method_boost(comp_data.retrieval_method)
    + (IF /\ ctx.primary_domain = "automotive"
          /\ \E i \in 1..Len(comp_data.relevance_factors) :
                 IsSubstring("automotive", comp_data.relevance_factors[i])
       THEN 5 ELSE 0)

\* insert x behind every element whose key is not smaller: with the elements
\* inserted in list order this is sorted(..., reverse=True), which is stable
RECURSIVE InsertDesc(_, _, _)
InsertDesc(sorted, x, ctx) ==
    IF sorted = <<>> THEN <<x>>
    ELSE IF ranking_key(Head(sorted), ctx) >= ranking_key(x, ctx)
         THEN <<Head(sorted)>> \o InsertDesc(Tail(sorted), x, ctx)
         ELSE <<x>> \o sorted

RECURSIVE _rank_from(_, _, _, _)
_rank_from(components, i, sorted, ctx) ==
    IF i > Len(components) THEN sorted
    ELSE _rank_from(components, i + 1,
                    InsertDesc(sorted, components[i], ctx), ctx)

_rank_components(components, ctx) == _rank_from(components, 1, <<>>, ctx)

\* the slice that keeps one entry too many
Top10_off_by_one(ranked_components) == Take(ranked_components, 11)

\* ranked_components[:10]
Top10(ranked_components) == Take(ranked_components, 10)

\* logger.warning(f"Vector store not available: {e}")
VectorStoreWarning == "Vector store not available"

\* HardwareRetrievalEngine.__init__ with the ImportError of the vector store
\* left uncaught
HardwareRetrievalEngine_init_uncaught(outcome) ==
    IF outcome = "ok"
    THEN [engine |-> "constructed", vector_search_available |-> TRUE,
          logged |-> <<>>]
    ELSE [engine |-> "raised", vector_search_available |-> FALSE,
          logged |-> <<>>]

\* HardwareRetrievalEngine.__init__: outcome is how HardwareVectorStore() and
\* populate_from_database end; only ImportError is caught
HardwareRetrievalEngine_init(outcome) ==
    IF outcome = "ok"
    THEN [engine |-> "constructed", vector_search_available |-> TRUE,
          logged |-> <<>>]
    ELSE IF outcome = "ImportError"
    THEN [engine |-> "constructed", vector_search_available |-> FALSE,
          logged |-> <<VectorStoreWarning>>]
    ELSE [engine |-> "raised", vector_search_available |-> FALSE,
          logged |-> <<>>]

\* the candidates with the domain-specific results put first
_candidates_domain_first(ctx, db, available, results) ==
    _domain_specific_component_retrieval(ctx, db)
    \o (IF available THEN _semantic_component_search(db, results) ELSE <<>>)
    \o _intent_based_component_retrieval(ctx, db)

\* the candidates of the three strategies, concatenated
_candidates(ctx, db, available, results) ==
    (IF available THEN _semantic_component_search(db, results) ELSE <<>>)
    \o _intent_based_component_retrieval(ctx, db)
    \o _domain_specific_component_retrieval(ctx, db)

_retrieve_components(ctx, db, available, results) ==
    Top10(_rank_components(
              _deduplicate_components(
                  _candidates(ctx, db, available, results)),
              ctx))

RECURSIVE _query_standards(_, _)
_query_standards(reqs, i) ==
    IF i > Len(reqs) THEN <<>>
    ELSE LET parents ==
                 SelectSeq(StandardsDb,
                           LAMBDA std :
                               \E j \in 1..Len(std.requirements) :
                                   std.requirements[j] = reqs[i])
         IN  (IF parents = <<>> THEN <<>>
              ELSE <<[standard |-> Head(parents).standard_id,
                      specific_requirement |-> reqs[i],
                      relevance_score |-> 95,
                      retrieval_method |-> "query_based"]>>)
             \o _query_standards(reqs, i + 1)

_retrieve_standards(ctx) ==
    LET domain_standards == get_standards_by_domain(ctx.primary_domain)
    IN  [i \in 1..Len(domain_standards) |->
            [standard |-> domain_standards[i].standard_id,
             relevance_score |-> 90,
             retrieval_method |-> "domain_based",
             applicable_to |-> ctx.primary_domain]]
        \o (IF \E kw \in {"aec-q100", "iso 26262", "iec 60601"} :
                   InQuery(kw, ctx.query)
            THEN _query_standards(Take(search_requirements(ctx.query), 3), 1)
            ELSE <<>>)

_get_retrieval_methods_used(ctx, available) ==
    {"intent_based", "domain_specific"}
    \cup (IF available THEN {"semantic_search"} ELSE {})
    \cup (IF ctx.primary_intent = "compliance_checking"
          THEN {"compliance_based"} ELSE {})

\* the confidence without the final min(base_confidence, 1.0)
_calculate_retrieval_confidence_no_min(components, standards, available) ==
    60 + Min(Len(components) * 5, 30) + Min(Len(standards) * 8, 20)
       + (IF available THEN 10 ELSE 0)

_calculate_retrieval_confidence(components, standards, available) ==
    Min(60 + Min(Len(components) * 5, 30) + Min(Len(standards) * 8, 20)
           + (IF available THEN 10 ELSE 0),
        100)

\* the strategy calls into its data source for this context
CallsSource(strategy, ctx, available) ==
    CASE strategy = "semantic_search" -> available
      [] strategy = "intent_based" ->
             \/ ctx.primary_intent = "component_selection"
             \/ /\ ctx.primary_intent = "compliance_checking"
                /\ _extract_compliance_requirements(ctx.query) # {}
      [] strategy = "domain_specific" ->
             ctx.primary_domain \in {"automotive", "medical"}
      [] OTHER -> FALSE

\* retrieve_knowledge has no handler around a strategy: what a strategy
\* raises leaves _retrieve_components and retrieve_knowledge
retrieve_knowledge(ctx, db, available, results, fail) ==
    IF CallsSource(fail, ctx, available) THEN Raised
    ELSE LET components == _retrieve_components(ctx, db, available, results)
             standards  == _retrieve_standards(ctx)
         IN  [components |-> components,
              standards |-> standards,
              domain_context |-> [domain |-> ctx.primary_domain],
              retrieval_summary |->
                  [total_components |-> Len(components),
                   total_standards |-> Len(standards),
                   retrieval_methods |->
                       _get_retrieval_methods_used(ctx, available),
                   confidence |->
                       _calculate_retrieval_confidence(
                           components, standards, available)]]

(***************************************************************************)
(* AIModelClient, the caller of the selected model                         *)
(***************************************************************************)
\* the model names call_ai_model has a branch for
SupportedModels == {"claude_sonnet_4", "grok_2", "gpt_4o", "gpt_4o_mini"}

\* what the body of the try block does: a response, or the exception raised
model_call(name, fails) ==
    IF name \notin SupportedModels
    THEN [raised |-> "ValueError", message |-> "Unsupported model", arg |-> name]
    ELSE IF fails
    THEN [raised |-> "Exception", message |-> "model call failed", arg |-> name]
    ELSE [response |-> "mock response", model |-> name]

\* call_ai_model: every exception of the try block is caught, logged and
\* turned into the same error string
call_ai_model(name, fails) ==
    LET outcome == model_call(name, fails)
    IN  IF "raised" \in DOMAIN outcome
        THEN [returned |->
                  [text |-> "Error: Unable to generate response using",
                   model |-> name],
              logged |->
                  <<[text |-> "AI model call failed for", model |-> name,
                     exception |-> outcome.message]>>]
        ELSE [returned |-> [text |-> outcome.response, model |-> name],
              logged |-> <<>>]

(***************************************************************************)
(* Scoring one query                                                       *)
(***************************************************************************)
DomainArgs ==
    {NONE, "", "automotive", "medical", "analog_rf", "power_electronics",
     "consumer"}

\* the classifier is constructed and has not been called
ClassifierIdle ==
    /\ intent_categories = INTENT_CATEGORIES
    /\ primary = NoResult
    /\ classification = NoResult

\* analyze_query has not been called
AnalyzerIdle ==
    /\ analysis = NoResult
    /\ previous = NoResult
    /\ calls = 0

\* the scorer has been constructed from the configuration as it is written
ScorerLoaded ==
    /\ weight_table = COMPLEXITY_FACTORS
    /\ scorer = "constructed"
    /\ patterns = _compile_patterns(KeywordLists)

\* no AI model client is in use
ClientIdle ==
    /\ model_name = NONE
    /\ model_fails = FALSE
    /\ response = NoResult
    /\ error_log = <<>>
    /\ client_calls = 0

\* no retrieval engine is in use
RetrievalIdle ==
    /\ component_db = <<>>
    /\ vector_search_available = FALSE
    /\ vector_results = <<>>
    /\ context = NoResult
    /\ failing = NONE
    /\ knowledge = NoResult
    /\ vector_store_init = "ok"
    /\ engine = "none"

\* the router has not been called
RouterIdle ==
    /\ score = 0
    /\ routing = NoResult
    /\ earlier = NoResult

\* the application has not started and has served no request
ApiIdle ==
    /\ debug = FALSE
    /\ escalates = FALSE
    /\ started = FALSE
    /\ vector_warnings = 0
    /\ request = NoResult
    /\ fault = NONE
    /\ http_response = NoResult
    /\ earlier_exchange = NoResult
    /\ served = 0

\* _extract_constraints_from_query has not been called
ConstraintsIdle ==
    /\ constraint_query = NoResult
    /\ extracted = NoResult

\* no second query is scored
CompareIdle ==
    /\ smaller = NoResult
    /\ smaller_complexity = NoResult

\* number of concurrent callers of get_query_analyzer
MaxCallers == 3

Callers == 1..MaxCallers

\* None where an analyzer is expected; the analyzers are numbered from 1 in
\* the order of their construction
NoInstance == 0

\* the module has been imported (query_analyzer = None) and nobody has
\* called get_query_analyzer
SingletonIdle ==
    /\ query_analyzer = NoInstance
    /\ constructed = 0
    /\ pc = [c \in Callers |-> "idle"]
    /\ instance = [c \in Callers |-> NoInstance]
    /\ got = [c \in Callers |-> NoInstance]

InitScore ==
    /\ ConstraintsIdle
    /\ CompareIdle
    /\ ApiIdle
    /\ SingletonIdle
    /\ query \in QueriesOver(ScorerTokens) \cup {AutomotiveBuckQuery}
    /\ domain \in DomainArgs
    /\ factors = COMPLEXITY_FACTORS
    /\ ScorerLoaded
    /\ complexity = NoResult
    /\ ClassifierIdle
    /\ RouterIdle
    /\ AnalyzerIdle
    /\ ClientIdle
    /\ RetrievalIdle

CalculateComplexity ==
    /\ scorer = "constructed"
    /\ complexity = NoResult
    /\ complexity' = calculate_complexity(query, domain, factors)
    /\ UNCHANGED <<constraintVars, compareVars, apiVars, singletonVars,
                   loadVars, clientVars, query, domain, factors,
                   classifierVars, routerVars, analyzerVars, retrievalVars>>

NextScore == CalculateComplexity

SpecScore == InitScore /\ [][NextScore]_vars

(***************************************************************************)
(* Classifying one query                                                   *)
(***************************************************************************)
\* the table, and the table with the greatest multiplier the data model
\* allows (1.0) for component_selection
IntentTables ==
    {INTENT_CATEGORIES,
     [INTENT_CATEGORIES EXCEPT !.component_selection.base_complexity = 100]}

InitIntent ==
    /\ ConstraintsIdle
    /\ CompareIdle
    /\ ApiIdle
    /\ SingletonIdle
    /\ query \in QueriesOver(IntentTokens)
    /\ domain = NONE
    /\ factors = COMPLEXITY_FACTORS
    /\ ScorerLoaded
    /\ complexity = NoResult
    /\ intent_categories \in IntentTables
    /\ primary = NoResult
    /\ classification = NoResult
    /\ RouterIdle
    /\ AnalyzerIdle
    /\ ClientIdle
    /\ RetrievalIdle

GetPrimaryIntent ==
    /\ primary = NoResult
    /\ primary' = get_primary_intent(query, intent_categories, IntentOrder)
    /\ UNCHANGED <<constraintVars, compareVars, apiVars, singletonVars,
                   loadVars, clientVars, scorerVars, intent_categories,
                   classification, routerVars, analyzerVars, retrievalVars>>

\* classify_intent(query)
ClassifyIntent ==
    /\ classification = NoResult
    /\ classification' = classify_intent(query, intent_categories)
    /\ UNCHANGED <<constraintVars, compareVars, apiVars, singletonVars,
                   loadVars, clientVars, scorerVars, intent_categories,
                   primary, routerVars, analyzerVars, retrievalVars>>

NextIntent == GetPrimaryIntent \/ ClassifyIntent

SpecIntent == InitIntent /\ [][NextIntent]_vars

\* every category scores zero on the current query
AllIntentsZero ==
    \A i \in DOMAIN intent_categories :
        classify_intent(query, intent_categories)[i] = 0

(***************************************************************************)
(* Routing two requests of the same intent and domain                      *)
(***************************************************************************)
\* number of steps of the grid of complexity scores in [0, 1]
ScoreGrid == 100

RouterScores == {(k * 100000) \div ScoreGrid : k \in 0..ScoreGrid}

InitRoute ==
    /\ ConstraintsIdle
    /\ CompareIdle
    /\ ApiIdle
    /\ SingletonIdle
    /\ query = EmptyQuery
    /\ domain = NONE
    /\ factors = COMPLEXITY_FACTORS
    /\ ScorerLoaded
    /\ complexity = NoResult
    /\ ClassifierIdle
    /\ score \in RouterScores
    /\ routing = NoResult
    /\ earlier = NoResult
    /\ AnalyzerIdle
    /\ ClientIdle
    /\ RetrievalIdle

SelectModel ==
    /\ routing = NoResult
    /\ \E escalate \in BOOLEAN :
           routing' = route(score, escalate, COMPLEXITY_THRESHOLDS)
    /\ UNCHANGED <<constraintVars, compareVars, apiVars, singletonVars,
                   loadVars, clientVars, scorerVars, classifierVars, score,
                   earlier, analyzerVars, retrievalVars>>

NextRequest ==
    /\ routing # NoResult
    /\ earlier = NoResult
    /\ earlier' = [score |-> score, routing |-> routing]
    /\ score' \in RouterScores
    /\ routing' = NoResult
    /\ UNCHANGED <<constraintVars, compareVars, apiVars, singletonVars,
                   loadVars, clientVars, scorerVars, classifierVars,
                   analyzerVars, retrievalVars>>

NextRoute == SelectModel \/ NextRequest

SpecRoute == InitRoute /\ [][NextRoute]_vars

\* the decision for the higher score is not of a lower tier than the
\* decision for the lower score, unless the lower score was escalated
TierOrdered(lo, lo_routing, hi, hi_routing) ==
    (lo <= hi /\ ~lo_routing.escalated) =>
        Tier(hi_routing.selected_model) >= Tier(lo_routing.selected_model)

(***************************************************************************)
(* A sequence of analyze_query calls on one analyzer                       *)
(***************************************************************************)
InitAnalyze ==
    /\ ConstraintsIdle
    /\ CompareIdle
    /\ ApiIdle
    /\ SingletonIdle
    /\ query \in QueriesOver(AnalyzeTokens)
    /\ domain = NONE
    /\ factors = COMPLEXITY_FACTORS
    /\ ScorerLoaded
    /\ complexity = NoResult
    /\ ClassifierIdle
    /\ RouterIdle
    /\ AnalyzerIdle
    /\ ClientIdle
    /\ RetrievalIdle

\* analyze_query(query), the call whose results are compared
AnalyzeQuery ==
    /\ calls < MaxCalls
    /\ LET r == analyze_query(query, intent_categories, factors)
       IN  /\ previous' = analysis
           /\ analysis' = r
           /\ primary' = r.primary_intent
           /\ domain' = r.primary_domain
           /\ complexity' = r.complexity
           /\ score' = r.complexity.final_score
           /\ \E escalate \in BOOLEAN :
                  routing' = route(r.complexity.final_score, escalate,
                                   COMPLEXITY_THRESHOLDS)
           /\ factors' = factors_after_call(factors,
                                            r.complexity.factor_scores)
    /\ calls' = calls + 1
    /\ UNCHANGED <<constraintVars, compareVars, apiVars, singletonVars,
                   loadVars, clientVars, query, intent_categories,
                   classification, earlier, retrievalVars>>

\* analyze_query(q) for another query; its result goes to another caller
AnalyzeOther ==
    /\ calls < MaxCalls
    /\ \E q \in QueriesOver(AnalyzeTokens) \ {query} :
           LET r == analyze_query(q, intent_categories, factors)
           IN  factors' = factors_after_call(factors,
                                             r.complexity.factor_scores)
    /\ calls' = calls + 1
    /\ UNCHANGED <<constraintVars, compareVars, apiVars, singletonVars,
                   loadVars, clientVars, query, domain, complexity,
                   classifierVars, routerVars, analysis, previous,
                   retrievalVars>>

NextAnalyze == AnalyzeQuery \/ AnalyzeOther

SpecAnalyze == InitAnalyze /\ [][NextAnalyze]_vars

(***************************************************************************)
(* One retrieve_knowledge call                                             *)
(***************************************************************************)
\* n_results of both vector store searches
NResults == 8

Strategies == {"semantic_search", "intent_based", "domain_specific"}

InitRetrieve ==
    /\ ConstraintsIdle
    /\ CompareIdle
    /\ ApiIdle
    /\ SingletonIdle
    /\ query = EmptyQuery
    /\ domain = NONE
    /\ factors = COMPLEXITY_FACTORS
    /\ ScorerLoaded
    /\ complexity = NoResult
    /\ ClassifierIdle
    /\ RouterIdle
    /\ AnalyzerIdle
    /\ ClientIdle
    /\ component_db \in {ComponentDb(n, c, p) :
                            n \in 0..MaxComponents, c \in {1, 3}, p \in {1, 2}}
    /\ vector_search_available \in BOOLEAN
    /\ vector_results \in
           IF vector_search_available
           THEN {VectorResults(k, off) : k \in {0, 2, NResults}, off \in {0, 4}}
           ELSE {<<>>}
    /\ context \in [query : QueriesWith(RetrievalTokens),
                    primary_intent : {"component_selection",
                                      "compliance_checking",
                                      "educational_content"},
                    primary_domain : {"automotive", "medical", "general"}]
    /\ failing = NONE
    /\ knowledge = NoResult
    /\ vector_store_init =
           IF vector_search_available THEN "ok" ELSE "ImportError"
    /\ engine = "constructed"

\* retrieve_knowledge(context); at most one strategy finds its data source
\* raising
RetrieveKnowledge ==
    /\ engine = "constructed"
    /\ knowledge = NoResult
    /\ \E f \in {NONE} \cup Strategies :
           /\ f # NONE => CallsSource(f, context, vector_search_available)
           /\ failing' = f
           /\ knowledge' = retrieve_knowledge(context, component_db,
                                              vector_search_available,
                                              vector_results, f)
    /\ UNCHANGED <<constraintVars, compareVars, apiVars, singletonVars,
                   loadVars, clientVars, scorerVars, classifierVars,
                   routerVars, analyzerVars, component_db,
                   vector_search_available, vector_results, context,
                   vector_store_init, engine>>

NextRetrieve == RetrieveKnowledge

SpecRetrieve == InitRetrieve /\ [][NextRetrieve]_vars

(***************************************************************************)
(* Constructing the engine, then one retrieve_knowledge call               *)
(***************************************************************************)
\* how HardwareVectorStore() can end: normally, with the ImportError of a
\* missing optional dependency, or with any other exception
StoreOutcomes == {"ok", "ImportError", "Exception"}

InitEngine ==
    /\ ConstraintsIdle
    /\ CompareIdle
    /\ ApiIdle
    /\ SingletonIdle
    /\ query = EmptyQuery
    /\ domain = NONE
    /\ factors = COMPLEXITY_FACTORS
    /\ ScorerLoaded
    /\ complexity = NoResult
    /\ ClassifierIdle
    /\ RouterIdle
    /\ AnalyzerIdle
    /\ ClientIdle
    /\ component_db \in {ComponentDb(n, c, p) :
                            n \in 0..MaxComponents, c \in {1, 3}, p \in {1, 2}}
    /\ vector_store_init \in StoreOutcomes
    /\ vector_search_available = FALSE
    /\ vector_results \in
           IF vector_store_init = "ok"
           THEN {VectorResults(k, off) : k \in {0, NResults}, off \in {0, 4}}
           ELSE {<<>>}
    /\ context \in [query : QueriesWith(RetrievalTokens),
                    primary_intent : {"component_selection",
                                      "compliance_checking",
                                      "educational_content"},
                    primary_domain : {"automotive", "medical", "general"}]
    /\ failing = NONE
    /\ knowledge = NoResult
    /\ engine = "none"

\* HardwareRetrievalEngine()
ConstructEngine ==
    /\ engine = "none"
    /\ LET made == HardwareRetrievalEngine_init(vector_store_init)
       IN  /\ engine' = made.engine
           /\ vector_search_available' = made.vector_search_available
    /\ UNCHANGED <<constraintVars, compareVars, apiVars, singletonVars,
                   loadVars, clientVars, scorerVars, classifierVars,
                   routerVars, analyzerVars, component_db, vector_results,
                   context, failing, knowledge, vector_store_init>>

NextEngine == ConstructEngine \/ RetrieveKnowledge

SpecEngine == InitEngine /\ [][NextEngine]_vars

(***************************************************************************)
(* Importing a weight table, constructing the scorer, scoring one query    *)
(***************************************************************************)
\* weights an edited table may give to one factor, in thousandths
EditedWeights == {0, 50, 150, 225, 275, 500}

\* COMPLEXITY_FACTORS as written, or with the weight of one factor edited
WeightTables ==
    {[COMPLEXITY_FACTORS EXCEPT ![f] = w] :
        f \in DOMAIN COMPLEXITY_FACTORS, w \in EditedWeights}

InitLoad ==
    /\ ConstraintsIdle
    /\ CompareIdle
    /\ ApiIdle
    /\ SingletonIdle
    /\ query \in QueriesWith(ScorerTokens)
    /\ domain \in {NONE, "automotive"}
    /\ weight_table \in WeightTables
    /\ factors = NoResult
    /\ scorer = "none"
    /\ patterns = NoResult
    /\ complexity = NoResult
    /\ ClassifierIdle
    /\ RouterIdle
    /\ AnalyzerIdle
    /\ ClientIdle
    /\ RetrievalIdle

\* HardwareComplexityScorer()
ConstructScorer ==
    /\ scorer = "none"
    /\ LET made == HardwareComplexityScorer_init(weight_table, KeywordLists)
       IN  /\ scorer' = made.scorer
           /\ factors' = made.factors
           /\ patterns' = made.patterns
    /\ UNCHANGED <<constraintVars, compareVars, apiVars, singletonVars, query,
                   domain, complexity, weight_table, classifierVars,
                   routerVars, analyzerVars, retrievalVars, clientVars>>

NextLoad == ConstructScorer \/ CalculateComplexity

SpecLoad == InitLoad /\ [][NextLoad]_vars

(***************************************************************************)
(* A sequence of call_ai_model calls on one client                         *)
(***************************************************************************)
\* model names a caller may pass
ModelArgs == SupportedModels \cup {"invalid_model", ""}

InitClient ==
    /\ ConstraintsIdle
    /\ CompareIdle
    /\ ApiIdle
    /\ SingletonIdle
    /\ query = EmptyQuery
    /\ domain = NONE
    /\ factors = COMPLEXITY_FACTORS
    /\ ScorerLoaded
    /\ complexity = NoResult
    /\ ClassifierIdle
    /\ RouterIdle
    /\ AnalyzerIdle
    /\ RetrievalIdle
    /\ model_name \in ModelArgs
    /\ model_fails \in BOOLEAN
    /\ response = NoResult
    /\ error_log = <<>>
    /\ client_calls = 0

\* call_ai_model(model_name, enhanced_prompt, context)
CallAiModel ==
    /\ response = NoResult
    /\ LET r == call_ai_model(model_name, model_fails)
       IN  /\ response' = r.returned
           /\ error_log' = error_log \o r.logged
    /\ client_calls' = client_calls + 1
    /\ UNCHANGED <<constraintVars, compareVars, apiVars, singletonVars,
                   loadVars, scorerVars, classifierVars, routerVars,
                   analyzerVars, retrievalVars, model_name, model_fails>>

\* the caller prepares its next call
NextModelCall ==
    /\ response # NoResult
    /\ client_calls < MaxCalls
    /\ model_name' \in ModelArgs
    /\ model_fails' \in BOOLEAN
    /\ response' = NoResult
    /\ UNCHANGED <<constraintVars, compareVars, apiVars, singletonVars,
                   loadVars, scorerVars, classifierVars, routerVars,
                   analyzerVars, retrievalVars, error_log, client_calls>>

NextClient == CallAiModel \/ NextModelCall

SpecClient == InitClient /\ [][NextClient]_vars

(***************************************************************************)
(* The HTTP layer: main.py and api/endpoints.py.  A response has a status  *)
(* code, the content of a successful call, and the texts that make up the  *)
(* error message of a failed one.                                          *)
(***************************************************************************)
\* str(e) of an exception raised inside the application
InternalText == "internal exception text"

AnalyzePath == "/api/v1/analyze"

KnowledgePath == "/api/v1/analyze-with-knowledge"

StatusPath == "/api/v1/status"

\* tokens of the queries sent to the API
ApiTokens == {"select", "automotive"}

\* HardwareQueryRequest: query, user_expertise, project_phase and
\* preferred_domain
Requests(path) ==
    [endpoint : {path},
     query : QueriesWith(ApiTokens),
     user_expertise : {"beginner", "expert"},
     project_phase : {NONE, "prototype"},
     preferred_domain : {NONE, "medical"}]

\* a response with status 200
Ok(content) == [status_code |-> 200, content |-> content, text |-> <<>>]

\* http_exception_handler: exc.detail is sent as it is
http_exception_handler(status_code, detail) ==
    [status_code |-> status_code, content |-> NoResult, text |-> detail]

\* global_exception_handler: str(exc) is sent only when settings.debug is set
global_exception_handler(exc, dbg) ==
    [status_code |-> 500,
     content |-> NoResult,
     text |-> <<"Internal Server Error",
                IF dbg THEN exc ELSE "An internal error occurred">>]

\* what analyzer.analyze_query(q) returns: classification, complexity and
\* the routing decision
Analysis(q, categories, weights, escalate) ==
    LET r == analyze_query(q, categories, weights)
    IN  [classification |-> [intent_scores |-> r.intent_scores,
                             primary_intent |-> r.primary_intent,
                             primary_domain |-> r.primary_domain],
         complexity |-> r.complexity,
         routing |-> route(r.complexity.final_score, escalate,
                           COMPLEXITY_THRESHOLDS)]

\* the steps of a handler that can raise
AnalyzeFaults == {"get_query_analyzer", "analyze_query"}

\* analyze_hardware_query handing the preferred domain to the scorer
analyze_hardware_query_hint(req, f, categories, weights, escalate, dbg) ==
    IF f = "get_query_analyzer"
    THEN global_exception_handler(InternalText, dbg)
    ELSE IF f = "analyze_query"
    THEN http_exception_handler(
             500, <<"Query analysis failed: ", InternalText>>)
    ELSE LET a == Analysis(req.query, categories, weights, escalate)
         IN  Ok([a EXCEPT !.complexity =
                     calculate_complexity(req.query, req.preferred_domain,
                                          weights)])

\* analyze_hardware_query(request, analyzer); f is the step that raises.
\* The Depends(get_query_analyzer) call is outside the handler's try block.
analyze_hardware_query(req, f, categories, weights, escalate, dbg) ==
    IF f = "get_query_analyzer"
    THEN global_exception_handler(InternalText, dbg)
    ELSE IF f = "analyze_query"
    THEN http_exception_handler(
             500, <<"Query analysis failed: ", InternalText>>)
    ELSE Ok(Analysis(req.query, categories, weights, escalate))

\* analyze_with_knowledge(request, analyzer): a HardwareRetrievalEngine is
\* constructed inside the handler; outcome is how its vector store starts
analyze_with_knowledge(req, f, cats, w, escalate, dbg, outcome, db, res) ==
    IF f = "get_query_analyzer"
    THEN [response |-> global_exception_handler(InternalText, dbg),
          logged |-> <<>>]
    ELSE IF f = "analyze_query"
    THEN [response |-> http_exception_handler(
                           500, <<"Enhanced analysis failed: ",
                                  InternalText>>),
          logged |-> <<>>]
    ELSE LET a == Analysis(req.query, cats, w, escalate)
             made == HardwareRetrievalEngine_init(outcome)
             ctx == [query |-> req.query,
                     primary_intent |->
                         a.classification.primary_intent.intent,
                     primary_domain |-> a.classification.primary_domain]
             k == retrieve_knowledge(ctx, db, made.vector_search_available,
                                     res, f)
         IN  [response |->
                  IF made.engine = "raised" \/ k = Raised
                  THEN http_exception_handler(
                           500, <<"Enhanced analysis failed: ",
                                  InternalText>>)
                  ELSE Ok([analysis |-> a, knowledge |-> k]),
              logged |-> made.logged]

\* system_status(): the knowledge check constructs a HardwareRetrievalEngine
system_status(f, outcome) ==
    LET made == HardwareRetrievalEngine_init(outcome)
        core_status == IF f = NONE THEN "healthy" ELSE "degraded"
        knowledge_status ==
            IF made.engine = "raised" THEN "degraded" ELSE "healthy"
    IN  [response |->
             Ok([core_ai_pipeline |-> core_status,
                 knowledge_retrieval |-> knowledge_status,
                 vector_database |->
                     IF knowledge_status = "healthy" THEN "healthy"
                     ELSE "unknown"]),
         logged |-> made.logged]

\* the requests sent to /api/v1/analyze-with-knowledge
KnowledgeRequests ==
    {r \in Requests(KnowledgePath) :
         r.project_phase = NONE /\ r.preferred_domain = NONE}

(***************************************************************************)
(* One process: startup, then a sequence of requests                       *)
(***************************************************************************)
InitApi ==
    /\ ConstraintsIdle
    /\ CompareIdle
    /\ SingletonIdle
    /\ query = EmptyQuery
    /\ domain = NONE
    /\ factors = COMPLEXITY_FACTORS
    /\ ScorerLoaded
    /\ complexity = NoResult
    /\ ClassifierIdle
    /\ RouterIdle
    /\ AnalyzerIdle
    /\ ClientIdle
    /\ component_db = ComponentDb(MaxComponents, 3, 2)
    /\ vector_store_init \in StoreOutcomes
    /\ vector_search_available = FALSE
    /\ vector_results =
           IF vector_store_init = "ok" THEN VectorResults(NResults, 0)
           ELSE <<>>
    /\ context = NoResult
    /\ failing = NONE
    /\ knowledge = NoResult
    /\ engine = "none"
    /\ debug \in BOOLEAN
    /\ escalates \in BOOLEAN
    /\ started = FALSE
    /\ vector_warnings = 0
    /\ request = NoResult
    /\ fault = NONE
    /\ http_response = NoResult
    /\ earlier_exchange = NoResult
    /\ served = 0

\* startup_event(): the knowledge base is initialised by constructing a
\* HardwareRetrievalEngine; an exception is logged and startup goes on
StartupEvent ==
    /\ ~started
    /\ started' = TRUE
    /\ LET made == HardwareRetrievalEngine_init(vector_store_init)
       IN  /\ engine' = made.engine
           /\ vector_search_available' = made.vector_search_available
           /\ vector_warnings' = vector_warnings + Len(made.logged)
    /\ UNCHANGED <<constraintVars, compareVars, singletonVars, loadVars,
                   clientVars, scorerVars, classifierVars, routerVars,
                   analyzerVars, component_db, vector_results, context,
                   failing, knowledge, vector_store_init, debug, escalates,
                   request, fault, http_response, earlier_exchange, served>>

\* the next request arrives once the application has started
ReceiveRequest ==
    /\ started
    /\ request # NoResult => http_response # NoResult
    /\ served < MaxCalls
    /\ request' \in Requests(AnalyzePath) \cup KnowledgeRequests
                    \cup {[endpoint |-> StatusPath]}
    /\ fault' = NONE
    /\ http_response' = NoResult
    /\ UNCHANGED <<constraintVars, compareVars, singletonVars, loadVars,
                   clientVars, scorerVars, classifierVars, routerVars,
                   analyzerVars, retrievalVars, debug, escalates, started,
                   vector_warnings, earlier_exchange, served>>

\* POST /api/v1/analyze
AnalyzeHardwareQuery ==
    /\ request # NoResult
    /\ request.endpoint = AnalyzePath
    /\ http_response = NoResult
    /\ \E f \in {NONE} \cup AnalyzeFaults :
           /\ fault' = f
           /\ http_response' =
                  analyze_hardware_query(request, f, intent_categories,
                                         factors, escalates, debug)
           /\ factors' =
                  IF f = NONE
                  THEN factors_after_call(
                           factors,
                           analyze_query(request.query, intent_categories,
                                         factors).complexity.factor_scores)
                  ELSE factors
    /\ served' = served + 1
    /\ UNCHANGED <<constraintVars, compareVars, singletonVars, loadVars,
                   clientVars, query, domain, complexity, classifierVars,
                   routerVars, analyzerVars, retrievalVars, debug, escalates,
                   started, vector_warnings, request, earlier_exchange>>

\* POST /api/v1/analyze-with-knowledge
AnalyzeWithKnowledge ==
    /\ request # NoResult
    /\ request.endpoint = KnowledgePath
    /\ http_response = NoResult
    /\ \E f \in {NONE} \cup AnalyzeFaults \cup Strategies :
           LET made == HardwareRetrievalEngine_init(vector_store_init)
               r == analyze_with_knowledge(
                        request, f, intent_categories, factors, escalates,
                        debug, vector_store_init, component_db,
                        vector_results)
               reached == f \notin AnalyzeFaults
           IN  /\ f \in Strategies =>
                      /\ made.engine = "constructed"
                      /\ r.response.status_code = 500
               /\ factors' =
                      IF reached
                      THEN factors_after_call(
                               factors,
                               analyze_query(request.query, intent_categories,
                                             factors)
                                   .complexity.factor_scores)
                      ELSE factors
               /\ fault' = f
               /\ http_response' = r.response
               /\ vector_warnings' = vector_warnings + Len(r.logged)
               /\ engine' = IF reached THEN made.engine ELSE engine
               /\ vector_search_available' =
                      IF reached THEN made.vector_search_available
                      ELSE vector_search_available
    /\ served' = served + 1
    /\ UNCHANGED <<constraintVars, compareVars, singletonVars, loadVars,
                   clientVars, query, domain, complexity, classifierVars,
                   routerVars, analyzerVars, component_db, vector_results,
                   context, failing, knowledge, vector_store_init, debug,
                   escalates, started, request, earlier_exchange>>

\* GET /api/v1/status
SystemStatus ==
    /\ request # NoResult
    /\ request.endpoint = StatusPath
    /\ http_response = NoResult
    /\ \E f \in {NONE, "core_components"} :
           LET made == HardwareRetrievalEngine_init(vector_store_init)
               r == system_status(f, vector_store_init)
           IN  /\ fault' = f
               /\ http_response' = r.response
               /\ vector_warnings' = vector_warnings + Len(r.logged)
               /\ engine' = made.engine
               /\ vector_search_available' = made.vector_search_available
    /\ served' = served + 1
    /\ UNCHANGED <<constraintVars, compareVars, singletonVars, loadVars,
                   clientVars, scorerVars, classifierVars, routerVars,
                   analyzerVars, component_db, vector_results, context,
                   failing, knowledge, vector_store_init, debug, escalates,
                   started, request, earlier_exchange>>

NextApi ==
    \/ StartupEvent
    \/ ReceiveRequest
    \/ AnalyzeHardwareQuery
    \/ AnalyzeWithKnowledge
    \/ SystemStatus

SpecApi == InitApi /\ [][NextApi]_vars

(***************************************************************************)
(* _extract_constraints_from_query.  The query text is given by the words  *)
(* it contains and, when it has one, its "A to B" range; the numbers of a  *)
(* range carry the unit written after them.                                *)
(***************************************************************************)
ConstraintWords ==
    {"temperature", "voltage", "supply", "sensor", "automotive"}

RangeUnits == {"", "v", "°c"}

Ranges == [lo : {-40, 5}, hi : {12, 125}, unit : RangeUnits]

\* the text has no "A to B" range
NoRange == [lo |-> 0, hi |-> 0, unit |-> "none"]

ConstraintQueries ==
    [words : SUBSET ConstraintWords, range : {NoRange} \cup Ranges]

\* pattern in query_lower
InText(pattern, t) ==
    \/ \E w \in t.words : w = pattern \/ IsSubstring(pattern, w)
    \/ /\ t.range # NoRange
       /\ t.range.unit = pattern \/ IsSubstring(pattern, t.range.unit)

voltage_patterns == <<"voltage", "volt", "v", "supply">>

\* re.search(r'(\d+(?:\.\d+)?)\s*v?\s*to\s*(\d+(?:\.\d+)?)\s*v?'): the
\* pattern has no sign, so the digits of a negative number are matched
voltage_match(t) ==
    IF t.range # NoRange /\ t.range.unit \in {"", "v"}
    THEN <<Max(t.range.lo, 0 - t.range.lo), t.range.hi>>
    ELSE <<>>

\* re.search(r'(-?\d+(?:\.\d+)?)\s*°?c?\s*to\s*(-?\d+(?:\.\d+)?)\s*°?c?')
temp_match(t) ==
    IF t.range # NoRange /\ t.range.unit \in {"", "°c"}
    THEN <<t.range.lo, t.range.hi>>
    ELSE <<>>

compliance_keywords ==
    <<"aec-q100", "iso 26262", "iec 60601", "automotive", "medical">>

\* kw.upper().replace(" ", "_")
UpperTag(kw) ==
    CASE kw = "aec-q100" -> "AEC-Q100"
      [] kw = "iso 26262" -> "ISO_26262"
      [] kw = "iec 60601" -> "IEC_60601"
      [] kw = "automotive" -> "AUTOMOTIVE"
      [] kw = "medical" -> "MEDICAL"

RECURSIVE found_compliance_from(_, _)
found_compliance_from(t, i) ==
    IF i > Len(compliance_keywords) THEN <<>>
    ELSE (IF InText(compliance_keywords[i], t)
          THEN <<UpperTag(compliance_keywords[i])>> ELSE <<>>)
         \o found_compliance_from(t, i + 1)

\* "import re" is a statement of the voltage branch: re is a local name of
\* the function, bound only when that branch runs, and the temperature
\* branch raises UnboundLocalError when it reads the unbound name.  A key
\* that is not set is the empty tuple.
_extract_constraints_from_query(t) ==
    LET voltage_term ==
            \E i \in 1..Len(voltage_patterns) : InText(voltage_patterns[i], t)
        temperature_term == InText("temperature", t) \/ InText("°c", t)
        re_bound == voltage_term
    IN  IF temperature_term /\ ~re_bound THEN Raised
        ELSE [voltage_range |->
                  IF voltage_term THEN voltage_match(t) ELSE <<>>,
              temp_range |->
                  IF temperature_term THEN temp_match(t) ELSE <<>>,
              compliance |-> found_compliance_from(t, 1)]

(***************************************************************************)
(* One _extract_constraints_from_query call                                *)
(***************************************************************************)
InitConstraints ==
    /\ CompareIdle
    /\ ApiIdle
    /\ SingletonIdle
    /\ query = EmptyQuery
    /\ domain = NONE
    /\ factors = COMPLEXITY_FACTORS
    /\ ScorerLoaded
    /\ complexity = NoResult
    /\ ClassifierIdle
    /\ RouterIdle
    /\ AnalyzerIdle
    /\ ClientIdle
    /\ RetrievalIdle
    /\ constraint_query \in ConstraintQueries
    /\ extracted = NoResult

\* self._extract_constraints_from_query(context.query)
ExtractConstraints ==
    /\ extracted = NoResult
    /\ extracted' = _extract_constraints_from_query(constraint_query)
    /\ UNCHANGED <<compareVars, apiVars, singletonVars, loadVars, clientVars,
                   scorerVars, classifierVars, routerVars, analyzerVars,
                   retrievalVars, constraint_query>>

NextConstraints == ExtractConstraints

SpecConstraints == InitConstraints /\ [][NextConstraints]_vars

(***************************************************************************)
(* get_query_analyzer, a plain function used as a dependency: the calls of *)
(* concurrent requests run in the worker threads of the thread pool, and a *)
(* thread switch can fall between any two of its steps.                    *)
(***************************************************************************)
InitSingleton ==
    /\ ConstraintsIdle
    /\ CompareIdle
    /\ ApiIdle
    /\ SingletonIdle
    /\ query = EmptyQuery
    /\ domain = NONE
    /\ factors = COMPLEXITY_FACTORS
    /\ ScorerLoaded
    /\ complexity = NoResult
    /\ ClassifierIdle
    /\ RouterIdle
    /\ AnalyzerIdle
    /\ ClientIdle
    /\ RetrievalIdle

\* what the steps of get_query_analyzer leave alone
SingletonFrame ==
    UNCHANGED <<constraintVars, compareVars, apiVars, loadVars, clientVars,
                scorerVars, classifierVars, routerVars, analyzerVars,
                retrievalVars>>

\* a request's dependency call starts
Call(c) ==
    /\ pc[c] = "idle"
    /\ pc' = [pc EXCEPT ![c] = "test"]
    /\ UNCHANGED <<query_analyzer, constructed, instance, got>>
    /\ SingletonFrame

\* if query_analyzer is None:
Test(c) ==
    /\ pc[c] = "test"
    /\ pc' = [pc EXCEPT ![c] =
                  IF query_analyzer = NoInstance THEN "construct"
                  ELSE "return"]
    /\ UNCHANGED <<query_analyzer, constructed, instance, got>>
    /\ SingletonFrame

\* HardwareQueryAnalyzer()
Construct(c) ==
    /\ pc[c] = "construct"
    /\ constructed' = constructed + 1
    /\ instance' = [instance EXCEPT ![c] = constructed + 1]
    /\ pc' = [pc EXCEPT ![c] = "store"]
    /\ UNCHANGED <<query_analyzer, got>>
    /\ SingletonFrame

\* query_analyzer = <the new analyzer>
Store(c) ==
    /\ pc[c] = "store"
    /\ query_analyzer' = instance[c]
    /\ pc' = [pc EXCEPT ![c] = "return"]
    /\ UNCHANGED <<constructed, instance, got>>
    /\ SingletonFrame

\* return query_analyzer
Return(c) ==
    /\ pc[c] = "return"
    /\ got' = [got EXCEPT ![c] = query_analyzer]
    /\ pc' = [pc EXCEPT ![c] = "done"]
    /\ UNCHANGED <<query_analyzer, constructed, instance>>
    /\ SingletonFrame

NextSingleton ==
    \E c \in Callers :
        Call(c) \/ Test(c) \/ Construct(c) \/ Store(c) \/ Return(c)

SpecSingleton == InitSingleton /\ [][NextSingleton]_vars

(***************************************************************************)
(* Scoring two queries with the same domain argument                       *)
(***************************************************************************)
\* tokens of the compared queries: "hello" matches no keyword list, "emi"
\* the standards list, "integration" the calculation and integration lists
CompareTokens == {"hello", "emi", "integration"}

InitCompare ==
    /\ ConstraintsIdle
    /\ ApiIdle
    /\ SingletonIdle
    /\ query \in QueriesOver(CompareTokens)
    /\ smaller \in QueriesOver(CompareTokens)
    /\ domain \in {NONE, "automotive"}
    /\ factors = COMPLEXITY_FACTORS
    /\ ScorerLoaded
    /\ complexity = NoResult
    /\ smaller_complexity = NoResult
    /\ ClassifierIdle
    /\ RouterIdle
    /\ AnalyzerIdle
    /\ ClientIdle
    /\ RetrievalIdle

\* calculate_complexity(smaller, domain)
CalculateSmaller ==
    /\ scorer = "constructed"
    /\ smaller_complexity = NoResult
    /\ smaller_complexity' = calculate_complexity(smaller, domain, factors)
    /\ UNCHANGED <<constraintVars, apiVars, singletonVars, loadVars,
                   clientVars, scorerVars, classifierVars, routerVars,
                   analyzerVars, retrievalVars, smaller>>

NextCompare == CalculateComplexity \/ CalculateSmaller

SpecCompare == InitCompare /\ [][NextCompare]_vars

(***************************************************************************)
(* A sequence of /analyze requests to a started application                *)
(***************************************************************************)
InitAnalyzeApi ==
    /\ ConstraintsIdle
    /\ CompareIdle
    /\ SingletonIdle
    /\ query = EmptyQuery
    /\ domain = NONE
    /\ factors = COMPLEXITY_FACTORS
    /\ ScorerLoaded
    /\ complexity = NoResult
    /\ ClassifierIdle
    /\ RouterIdle
    /\ AnalyzerIdle
    /\ ClientIdle
    /\ RetrievalIdle
    /\ debug = FALSE
    /\ escalates \in BOOLEAN
    /\ started = TRUE
    /\ vector_warnings = 0
    /\ request \in Requests(AnalyzePath)
    /\ fault = NONE
    /\ http_response = NoResult
    /\ earlier_exchange = NoResult
    /\ served = 0

\* the client keeps the response and sends its next /analyze request
NextAnalyzeRequest ==
    /\ http_response # NoResult
    /\ served < MaxCalls
    /\ earlier_exchange' = [request |-> request, response |-> http_response]
    /\ request' \in Requests(AnalyzePath)
    /\ fault' = NONE
    /\ http_response' = NoResult
    /\ UNCHANGED <<constraintVars, compareVars, singletonVars, loadVars,
                   clientVars, scorerVars, classifierVars, routerVars,
                   analyzerVars, retrievalVars, debug, escalates, started,
                   vector_warnings, served>>

NextAnalyzeApi == AnalyzeHardwareQuery \/ NextAnalyzeRequest

SpecAnalyzeApi == InitAnalyzeApi /\ [][NextAnalyzeApi]_vars

\* retrieve_knowledge has returned a KnowledgeResult
Returned == knowledge # NoResult /\ knowledge # Raised

\* all candidates of the current call, before deduplication
Candidates ==
    _candidates(context, component_db, vector_search_available,
                vector_results)

\* the sum before the clamp, for the current call
RawScore ==
    WeightedSum(FactorScores(query, domain), factors, 1)
    + LengthBonus(split(query))

\* no keyword of any factor occurs in the current query
NoKeywordMatch ==
    \A kws \in {high_complexity_keywords, constraint_keywords,
                calculation_keywords, standards_keywords,
                integration_keywords} : findall(kws, query) = 0

(***************************************************************************)
(* Claims                                                                  *)
(***************************************************************************)
\* C1: for every query and every domain argument (high-specificity, other,
\* none) calculate_complexity returns 0.0 <= final_score <= 1.0.
C1_FinalScoreInUnitInterval ==
    complexity # NoResult =>
        /\ complexity.final_score >= 0
        /\ complexity.final_score <= 100000

\* a call whose weighted sum plus length bonus exceeds 1.0 has returned
C1_Witness ==
    /\ complexity # NoResult
    /\ RawScore > 100000
    /\ complexity.final_score = 100000

\* C2: with no domain, final_score is never below 0.3 times the weight of
\* domain_specificity, also for a query without any keyword match.
C2_FloorWithoutDomain ==
    (complexity # NoResult /\ domain = NONE) =>
        complexity.final_score >= 30 * factors.domain_specificity

\* a call without domain on a non-empty query without keyword match returned
C2_Witness ==
    /\ complexity # NoResult
    /\ domain = NONE
    /\ NoKeywordMatch
    /\ complexity.word_count > 0
    /\ complexity.final_score < 100000

\* C3: the weights of the six complexity factors sum to exactly 1.0.
C3_WeightsSumToOne ==
    /\ DOMAIN factors = {FactorNames[i] : i \in 1..Len(FactorNames)}
    /\ Len(FactorNames) = 6
    /\ WeightedSum([f \in DOMAIN factors |-> 1], factors, 1) = 1000

\* a score has been computed from the configured weight table
C3_Witness ==
    /\ complexity # NoResult
    /\ factors = COMPLEXITY_FACTORS
    /\ complexity.final_score > 0


\* C4: when every category scores zero, get_primary_intent returns
\* "educational_content" with confidence 0.3.
C4_DefaultIntentOnNoMatch ==
    (primary # NoResult /\ AllIntentsZero) =>
        /\ primary.intent = "educational_content"
        /\ primary.confidence = 3000

\* C7: for a fixed intent and domain, a higher complexity score never selects
\* a lower tier (gpt_4o_mini < gpt_4o < grok_2 < claude_sonnet_4), except where
\* the lower score was escalated at a boundary.
C7_RouterMonotonic ==
    (earlier # NoResult /\ routing # NoResult) =>
        /\ TierOrdered(earlier.score, earlier.routing, score, routing)
        /\ TierOrdered(score, routing, earlier.score, earlier.routing)

\* two requests were routed without escalation, the second one with a
\* higher score to a higher tier
C7_Witness ==
    /\ earlier # NoResult
    /\ routing # NoResult
    /\ earlier.score < score
    /\ ~earlier.routing.escalated
    /\ ~routing.escalated
    /\ Tier(earlier.routing.selected_model) < Tier(routing.selected_model)

\* C8: thresholds are evaluated highest first, so every score selects one
\* of the four models, and a score in the overlap of the 0.4-0.7 and 0.6-0.8
\* bands selects grok_2, never gpt_4o.
C8_HighestThresholdFirst ==
    routing # NoResult =>
        /\ routing.selected_model \in Models
        /\ (score >= 60000 /\ score <= 70000) =>
               routing.selected_model = "grok_2"
        /\ ~routing.escalated =>
               /\ COMPLEXITY_THRESHOLDS[routing.selected_model] <= score
               /\ \A m \in Models :
                      COMPLEXITY_THRESHOLDS[m] <= score =>
                          Tier(m) <= Tier(routing.selected_model)

\* the score 0.65 has been routed
C8_Witness ==
    /\ routing # NoResult
    /\ score = 65000
    /\ routing.selected_model = "grok_2"

C5_AtMostTenComponents ==
    Returned => Len(knowledge.components) <= 10

\* a call with more than 10 unique candidates has returned
C5_Witness ==
    /\ Returned
    /\ Len(_deduplicate_components(Candidates)) > 10
    /\ Len(knowledge.components) = 10

\* C6: no two entries of the returned components list have the same
\* component_id, whatever strategies produced the candidates.
C6_UniqueComponentIds ==
    Returned =>
        \A i, j \in 1..Len(knowledge.components) :
            knowledge.components[i].component.component_id
                = knowledge.components[j].component.component_id
            => i = j

\* a call in which all three strategies found the same component returned
C6_Witness ==
    /\ Returned
    /\ \E id \in 1..MaxComponents :
           \A m \in {"semantic_search", "intent_based", "domain_specific"} :
               \E i \in 1..Len(Candidates) :
                   /\ Candidates[i].component.component_id = id
                   /\ Candidates[i].retrieval_method = m

\* C10: when one retrieval strategy raises, it is skipped and
\* retrieve_knowledge still returns a KnowledgeResult.
C10_FailingStrategySkipped ==
    (knowledge # NoResult /\ failing # NONE) => knowledge # Raised

\* the component ids of a list of retrieved components
IdsOf(entries) ==
    {entries[i].component.component_id : i \in 1..Len(entries)}

\* what the intent-based and the domain-specific strategy find in this call
KeywordFound ==
    IdsOf(_intent_based_component_retrieval(context, component_db))
    \cup IdsOf(_domain_specific_component_retrieval(context, component_db))

\* C11: when the vector store is unavailable at construction (ImportError),
\* HardwareRetrievalEngine() succeeds with vector_search_available = FALSE,
\* and a later retrieve_knowledge call in which no data source raises
\* returns a result with no semantic_search component, made of what the
\* intent-based and domain-specific strategies found (all of it, up to the
\* limit of 10).
C11_DegradesWithoutVectorStore ==
    (vector_store_init = "ImportError" /\ engine # "none") =>
        /\ engine = "constructed"
        /\ vector_search_available = FALSE
        /\ (knowledge # NoResult /\ failing = NONE) =>
               /\ Returned
               /\ \A i \in 1..Len(knowledge.components) :
                      knowledge.components[i].retrieval_method
                          # "semantic_search"
               /\ IdsOf(knowledge.components) \subseteq KeywordFound
               /\ Len(knowledge.components)
                      = Min(Cardinality(KeywordFound), 10)

\* an engine built without the vector store returned components of both the
\* intent-based and the domain-specific strategy
C11_Witness ==
    /\ vector_store_init = "ImportError"
    /\ engine = "constructed"
    /\ failing = NONE
    /\ Returned
    /\ \E i, j \in 1..Len(knowledge.components) :
           /\ knowledge.components[i].retrieval_method = "intent_based"
           /\ knowledge.components[j].retrieval_method = "domain_specific"

\* C12: the standards list returned by retrieve_knowledge never holds two
\* entries for the same standard: a standard named in the query whose parent
\* the domain pass already added is not added again.
C12_NoDuplicateStandards ==
    Returned =>
        \A i, j \in 1..Len(knowledge.standards) :
            knowledge.standards[i].standard = knowledge.standards[j].standard
            => i = j

\* C13: for the automotive buck converter query, scored with the automotive
\* domain it names, final_score is at least 0.8, the threshold from which
\* claude_sonnet_4 is selected.
C13_AutomotiveScenarioScore ==
    (complexity # NoResult /\ query = AutomotiveBuckQuery
         /\ domain = "automotive") =>
        /\ complexity.final_score >= 80000
        /\ complexity.final_score >= COMPLEXITY_THRESHOLDS.claude_sonnet_4

GenericFailure(name) ==
    [text |-> "Error: Unable to generate response using", model |-> name]

\* C15: a model name outside the four supported ones gives the caller an
\* "unsupported model" error that differs in kind from the generic failure
\* returned when the call to a supported model fails.
C15_UnsupportedModelDistinct ==
    (response # NoResult /\ model_name \notin SupportedModels) =>
        /\ response.text = "Unsupported model"
        /\ response # GenericFailure(model_name)

\* the sum of the six weights of a table, in thousandths
SumOfWeights(weights) ==
    LET names == DOMAIN weights
        RECURSIVE Sum(_)
        Sum(S) == IF S = {} THEN 0
                  ELSE LET f == CHOOSE x \in S : TRUE
                       IN  weights[f] + Sum(S \ {f})
    IN  Sum(names)

\* C16: a scorer is only ever constructed, and a complexity score only ever
\* computed, from a weight table whose six weights sum to 1.0; the weights
\* in use are those of the table, not normalized ones.
C16_WeightsValidatedAtLoad ==
    /\ scorer = "constructed" => SumOfWeights(factors) = 1000
    /\ complexity # NoResult => SumOfWeights(factors) = 1000
    /\ scorer = "constructed" => factors = weight_table

\* C17: every pattern of the constructed scorer is compiled from a keyword
\* list that is not empty and holds no keyword twice.
C17_KeywordListsValidated ==
    patterns # NoResult =>
        \A p \in DOMAIN patterns :
            /\ Len(patterns[p]) > 0
            /\ \A i, j \in 1..Len(patterns[p]) :
                   patterns[p][i] = patterns[p][j] => i = j

\* C18: for every category classify_intent returns
\* min((min(0.2 * keyword occurrences, 1.0) + 0.1 * indicators present)
\*     * base_complexity, 1.0): the boosts are added after the keyword part
\* is capped, and the result is in [0, 1].
C18_IntentScoreFormula ==
    classification # NoResult =>
        \A i \in DOMAIN intent_categories :
            LET cfg == intent_categories[i]
                occurrences == findall(cfg.keywords, query)
                present ==
                    Cardinality({ind \in cfg.complexity_indicators :
                                   InQuery(ind, query)})
                capped ==
                    IF occurrences * 20 > 100 THEN 100 ELSE occurrences * 20
                product == (capped + 10 * present) * cfg.base_complexity
            IN  /\ classification[i] =
                       (IF product > 10000 THEN 10000 ELSE product)
                /\ classification[i] >= 0
                /\ classification[i] <= 10000

\* classify_intent returned for a query with more than five keyword
\* occurrences and an indicator of component_selection: 1.1 times the
\* multiplier 0.6
C18_Witness ==
    /\ classification # NoResult
    /\ query["select"] + query["recommend"] > 5
    /\ query["trade-off"] > 0
    /\ intent_categories.component_selection.base_complexity = 60
    /\ classification.component_selection = 6600
    /\ classification.compliance_checking > 0

\* C19: get_primary_intent returns a category whose confidence no category
\* exceeds, with that confidence; among several such categories it returns
\* the first in the iteration order of the table.
C19_FirstMaximalIntent ==
    primary # NoResult =>
        LET scores == classify_intent(query, intent_categories)
        IN  \E k \in 1..Len(IntentOrder) :
                /\ primary.intent = IntentOrder[k]
                /\ primary.confidence = scores[IntentOrder[k]]
                /\ \A j \in 1..Len(IntentOrder) :
                       scores[IntentOrder[j]] <= primary.confidence
                /\ \A j \in 1..(k - 1) :
                       scores[IntentOrder[j]] < primary.confidence

\* get_primary_intent returned on a tie at a positive confidence between
\* component_selection and the later compliance_checking
C19_Witness ==
    /\ primary # NoResult
    /\ primary.confidence > 0
    /\ primary.intent = "component_selection"
    /\ classify_intent(query, intent_categories).compliance_checking
           = primary.confidence

\* min(step * n, 1.0) in hundredths
Capped(step, n) == IF step * n > 100 THEN 100 ELSE step * n

\* C20: calculate_complexity returns the factor scores min(0.2n, 1),
\* min(0.25n, 1), 0.8 / 0.5 / 0.3 for a high-specificity / other / missing
\* domain, min(0.3n, 1), min(0.4n, 1), min(0.5n, 1) of the match counts n,
\* and final_score = the sum of score times weight plus
\* min(word_count / 50, 0.1), clamped to [0, 1].
C20_ReferenceComputation ==
    complexity # NoResult =>
        LET technical == Capped(20, findall(high_complexity_keywords, query))
            constraints == Capped(25, findall(constraint_keywords, query))
            specificity ==
                IF domain \in {"automotive", "medical", "analog_rf",
                               "power_electronics"} THEN 80
                ELSE IF domain \in {NONE, ""} THEN 30
                ELSE 50
            calculations == Capped(30, findall(calculation_keywords, query))
            standards == Capped(40, findall(standards_keywords, query))
            integration == Capped(50, findall(integration_keywords, query))
            bonus == IF split(query) * 2000 > 10000 THEN 10000
                     ELSE split(query) * 2000
            total ==
                technical * factors.technical_keywords_density
                + constraints * factors.design_constraint_count
                + specificity * factors.domain_specificity
                + calculations * factors.calculation_complexity
                + standards * factors.standards_involvement
                + integration * factors.multi_domain_integration
                + bonus
        IN  /\ complexity.factor_scores =
                   [technical_keywords_density |-> technical,
                    design_constraint_count |-> constraints,
                    domain_specificity |-> specificity,
                    calculation_complexity |-> calculations,
                    standards_involvement |-> standards,
                    multi_domain_integration |-> integration]
            /\ complexity.word_count = split(query)
            /\ complexity.length_bonus = bonus
            /\ complexity.final_score =
                   (IF total > 100000 THEN 100000
                    ELSE IF total < 0 THEN 0 ELSE total)

\* a query scored for a domain outside the high-specificity set, with the
\* technical factor capped, two standards matches (0.8) and the length
\* bonus at its cap
C20_Witness ==
    /\ complexity # NoResult
    /\ domain = "consumer"
    /\ findall(high_complexity_keywords, query) > 5
    /\ findall(standards_keywords, query) = 2
    /\ complexity.factor_scores.standards_involvement = 80
    /\ complexity.length_bonus = 10000
    /\ complexity.final_score < 100000

\* the positions of a candidate list that hold the first entry of their
\* component
FirstOccurrences(candidates) ==
    {i \in 1..Len(candidates) :
        \A j \in 1..(i - 1) :
            candidates[j].component.component_id
                # candidates[i].component.component_id}

\* entries holds e, and no entry for the component of e before it
FirstEntryIn(entries, e) ==
    \E i \in 1..Len(entries) :
        /\ entries[i] = e
        /\ \A j \in 1..(i - 1) :
               entries[j].component.component_id # e.component.component_id

\* C21: a returned component carries the entry of the earliest strategy, in
\* the order semantic, intent-based, domain-specific, that found it, whatever
\* the later entries would rank; and deduplication keeps exactly the first
\* occurrences of the concatenated candidates, in their order.
C21_FirstOccurrenceWins ==
    Returned =>
        LET semantic ==
                IF vector_search_available
                THEN _semantic_component_search(component_db, vector_results)
                ELSE <<>>
            intent == _intent_based_component_retrieval(context, component_db)
            specific ==
                _domain_specific_component_retrieval(context, component_db)
            candidates == Candidates
            unique == _deduplicate_components(candidates)
            firsts == FirstOccurrences(candidates)
            semantic_ids == IdsOf(semantic)
            intent_ids == IdsOf(intent)
        IN  /\ \A n \in 1..Len(knowledge.components) :
                   LET e == knowledge.components[n]
                       id == e.component.component_id
                   IN  IF id \in semantic_ids THEN FirstEntryIn(semantic, e)
                       ELSE IF id \in intent_ids THEN FirstEntryIn(intent, e)
                       ELSE FirstEntryIn(specific, e)
            /\ Len(unique) = Cardinality(firsts)
            /\ \A k \in 1..Len(unique) :
                   \E i \in firsts :
                       /\ unique[k] = candidates[i]
                       /\ Cardinality({j \in firsts : j <= i}) = k

\* a returned component keeps its intent-based entry although the
\* domain-specific strategy found it too, with an entry that ranks higher
C21_Witness ==
    /\ Returned
    /\ \E n \in 1..Len(knowledge.components) :
           LET e == knowledge.components[n]
               specific ==
                   _domain_specific_component_retrieval(context, component_db)
           IN  /\ e.retrieval_method = "intent_based"
               /\ \E i \in 1..Len(specific) :
                      /\ specific[i].component.component_id
                             = e.component.component_id
                      /\ ranking_key(specific[i], context)
                             > ranking_key(e, context)

\* the relevance tags of an entry mention the detected domain
MentionsDomain(e, ctx) ==
    \E i \in 1..Len(e.relevance_factors) :
        IsSubstring(ctx.primary_domain, e.relevance_factors[i])

\* the ranking score: similarity, the boost of the retrieval method, and the
\* domain-alignment bonus, in hundredths
RankingScore(e, ctx) ==
    e.similarity_score
    + (CASE e.retrieval_method = "semantic_search"  -> 10
         [] e.retrieval_method = "compliance_based" -> 8
         [] e.retrieval_method = "domain_specific"  -> 6
         [] e.retrieval_method = "intent_based"     -> 4
         [] OTHER -> 0)
    + (IF MentionsDomain(e, ctx) THEN 5 ELSE 0)

\* C22: the returned components are in non-increasing order of ranking
\* score, and they are the 10 highest-ranked unique candidates (all of them
\* when there are fewer): no candidate left out scores more than one
\* returned.
C22_TopTenByRankingScore ==
    Returned =>
        LET unique == _deduplicate_components(Candidates)
            returned == knowledge.components
            left_out ==
                {i \in 1..Len(unique) :
                    unique[i].component.component_id \notin IdsOf(returned)}
        IN  /\ \A n \in 1..(Len(returned) - 1) :
                   RankingScore(returned[n], context)
                       >= RankingScore(returned[n + 1], context)
            /\ Len(returned) = Min(Len(unique), 10)
            /\ \A i \in left_out :
                   \A n \in 1..Len(returned) :
                       RankingScore(unique[i], context)
                           <= RankingScore(returned[n], context)

\* C23: whatever the detected domain, a candidate whose relevance tags
\* mention it is ranked with the domain-alignment bonus of 0.05 on top of
\* its similarity score and method boost.
C23_DomainBonusForEveryDomain ==
    Returned =>
        LET candidates == Candidates
        IN  \A i \in 1..Len(candidates) :
                MentionsDomain(candidates[i], context) =>
                    ranking_key(candidates[i], context)
                        = candidates[i].similarity_score
                          + method_boost(candidates[i].retrieval_method) + 5

\* C24: retrieval_summary.confidence is
\* min(0.6 + min(0.05 * components, 0.3) + min(0.08 * standards, 0.2)
\*     + (0.1 if semantic search is available), 1.0); it lies in [0.6, 1.0],
\* and one more component or one more standard never gives less.
C24_RetrievalConfidence ==
    Returned =>
        LET n == Len(knowledge.components)
            m == Len(knowledge.standards)
            component_boost == IF 5 * n > 30 THEN 30 ELSE 5 * n
            standards_boost == IF 8 * m > 20 THEN 20 ELSE 8 * m
            total == 60 + component_boost + standards_boost
                     + (IF vector_search_available THEN 10 ELSE 0)
            confidence == knowledge.retrieval_summary.confidence
        IN  /\ confidence = (IF total > 100 THEN 100 ELSE total)
            /\ confidence >= 60
            /\ confidence <= 100
            /\ _calculate_retrieval_confidence(
                   Append(knowledge.components, NoResult),
                   knowledge.standards, vector_search_available)
                   >= confidence
            /\ _calculate_retrieval_confidence(
                   knowledge.components,
                   Append(knowledge.standards, NoResult),
                   vector_search_available)
                   >= confidence

\* a call with semantic search, more than six components and three
\* standards returned: 1.2 before the final min
C24_Witness ==
    /\ Returned
    /\ vector_search_available
    /\ Len(knowledge.components) > 6
    /\ Len(knowledge.standards) = 3
    /\ knowledge.retrieval_summary.confidence = 100

\* C25: in a process whose vector store is unavailable (HardwareVectorStore()
\* ends with ImportError), over startup, status checks and
\* analyze-with-knowledge requests the "Vector store not available" warning
\* has been logged at most once, and a request in which nothing else raised
\* is answered with status 200.
C25_UnavailabilityLoggedOnce ==
    vector_store_init = "ImportError" =>
        /\ vector_warnings <= 1
        /\ (http_response # NoResult /\ fault = NONE) =>
               http_response.status_code = 200

\* C26: _extract_constraints_from_query returns a constraints mapping for
\* every query text, and for a query that mentions "temperature" or "°c" and
\* has a plain or °c "A to B" range the mapping has temp_range = (A, B),
\* with or without a voltage term in the query.
C26_ExtractsWithoutRaising ==
    extracted # NoResult =>
        /\ extracted # Raised
        /\ ( /\ InText("temperature", constraint_query)
                \/ InText("°c", constraint_query)
             /\ constraint_query.range # NoRange
             /\ constraint_query.range.unit \in {"", "°c"} ) =>
               extracted.temp_range =
                   <<constraint_query.range.lo, constraint_query.range.hi>>

\* C27: with settings.debug false, no error response (status 400 or above)
\* carries the text of an internal exception, whichever handler produced it.
C27_NoInternalTextInErrors ==
    (~debug /\ http_response # NoResult /\ http_response.status_code >= 400)
        => \A i \in 1..Len(http_response.text) :
               http_response.text[i] # InternalText

\* C28: under every interleaving of concurrent get_query_analyzer calls,
\* HardwareQueryAnalyzer has been constructed at most once and all callers
\* that have returned hold the same instance.
C28_AnalyzerConstructedOnce ==
    /\ constructed <= 1
    /\ \A a, b \in Callers :
           (pc[a] = "done" /\ pc[b] = "done") => got[a] = got[b]

\* the keyword lists whose matches are counted, by factor
CountedLists ==
    [technical_keywords_density |-> high_complexity_keywords,
     design_constraint_count |-> constraint_keywords,
     calculation_complexity |-> calculation_keywords,
     standards_involvement |-> standards_keywords,
     multi_domain_integration |-> integration_keywords]

\* every factor's match count and the word count of a are at most those of b
NoMoreMatches(a, b) ==
    /\ \A f \in DOMAIN CountedLists :
           findall(CountedLists[f], a) <= findall(CountedLists[f], b)
    /\ split(a) <= split(b)

\* the factor scores and the length bonus of result r for query q are
\* saturated: a score is at most 1.0 and is 1.0 from five matches on, the
\* bonus is at most 0.1 and is 0.1 exactly from five words on
Saturates(q, r) ==
    /\ \A f \in DOMAIN r.factor_scores : r.factor_scores[f] <= 100
    /\ \A f \in DOMAIN CountedLists :
           findall(CountedLists[f], q) >= 5 => r.factor_scores[f] = 100
    /\ r.length_bonus <= 10000
    /\ r.length_bonus = 10000 <=> split(q) >= 5

\* C29: for one domain argument, a query with no more matches in any factor
\* and no more words than another has a final score that is not greater;
\* factor scores saturate at 1.0 and the length bonus at 0.1 from 5 words.
C29_ScoreMonotone ==
    /\ complexity # NoResult => Saturates(query, complexity)
    /\ smaller_complexity # NoResult =>
           Saturates(smaller, smaller_complexity)
    /\ ( /\ complexity # NoResult
         /\ smaller_complexity # NoResult
         /\ NoMoreMatches(smaller, query) ) =>
           smaller_complexity.final_score <= complexity.final_score

\* both queries are scored, the greater one has a saturated integration
\* score, a saturated standards score and the full length bonus, and the
\* smaller one, with fewer matches, has the lower final score
C29_Witness ==
    /\ complexity # NoResult
    /\ smaller_complexity # NoResult
    /\ NoMoreMatches(smaller, query)
    /\ findall(integration_keywords, smaller)
           < findall(integration_keywords, query)
    /\ findall(standards_keywords, query) * 40 > 100
    /\ complexity.factor_scores.standards_involvement = 100
    /\ complexity.factor_scores.multi_domain_integration = 100
    /\ complexity.length_bonus = 10000
    /\ split(query) > 5
    /\ smaller_complexity.final_score < complexity.final_score

\* C30: two /analyze requests with the same query text that were both
\* answered receive the same classification, complexity and routing,
\* whatever their user_expertise, project_phase and preferred_domain are.
C30_AnalysisDependsOnQueryOnly ==
    ( /\ earlier_exchange # NoResult
      /\ http_response # NoResult
      /\ earlier_exchange.response.status_code = 200
      /\ http_response.status_code = 200
      /\ earlier_exchange.request.query = request.query ) =>
        http_response.content = earlier_exchange.response.content

\* two answered requests with one query text and different user_expertise,
\* project_phase and preferred_domain
C30_Witness ==
    /\ earlier_exchange # NoResult
    /\ http_response # NoResult
    /\ earlier_exchange.response.status_code = 200
    /\ http_response.status_code = 200
    /\ earlier_exchange.request.query = request.query
    /\ request.query # EmptyQuery
    /\ earlier_exchange.request.user_expertise # request.user_expertise
    /\ earlier_exchange.request.project_phase # request.project_phase
    /\ earlier_exchange.request.preferred_domain # request.preferred_domain
    /\ http_response.content.routing.selected_model \in Models

====
